---------------------------- MODULE Spec2Model ----------------------------
(***************************************************************************)
(* State-machine model of the mAInet game backend (backend/server.py over  *)
(* the tables of backend/supabase_config.py).                              *)
(*                                                                         *)
(* The datastore is the only shared state.  A request is a process whose   *)
(* atomic steps are the single datastore calls of its handler, so requests *)
(* served by different workers interleave between two calls.  Money is     *)
(* counted in cents (the tables hold decimal(.,2)); 1 coin = 100 cents.    *)
(* Python's binary floats are modelled by exact arithmetic on cents.       *)
(***************************************************************************)
EXTENDS Integers, Sequences, FiniteSets, TLC

\* ------------------------------------------------------------------ bounds
\* Total number of requests started in one behaviour.
MaxReqs == 3
\* Number of click requests in one behaviour of ClickSpec.
MaxClickReqs == 2
\* Number of requests of the two users in one behaviour of TwoUserSpec.
MaxTwoUserReqs == 3
\* Number of requests in one behaviour of FailSpec.
MaxFailReqs == 2
\* Number of POST /game/state requests in one behaviour of RegistrySpec.
MaxRegistrySaves == 2
\* Number of upgrade purchases in one behaviour of UpgradeSpec.
MaxUpgradeReqs == 3
\* Number of POST /game/state requests in one behaviour of WsSpec.
MaxWsSaves == 2
\* Number of texts a client sends on one socket.
MaxInbound == 1
\* Number of provider calls in one behaviour of ProviderSpec.
MaxProviderCalls == 1
\* Number of requests started in one behaviour of AuthSpec.
MaxAuthReqs == 2
\* Number of requests started in one behaviour of OfflineSpec.
MaxOfflineReqs == 4
\* Number of requests started in one behaviour of the verification-only
\* specification.
MaxVerifyReqs == 2

\* ------------------------------------------------------- program constants
MIN_TXID_LEN == 8
BONUS_PERCENT == 17
PAYEER_DEFAULT_AMOUNT == 1000
FAUCETPAY_DEFAULT_AMOUNT == 500
INITIAL_COINS == 100000
INITIAL_ENERGY == 100

\* ------------------------------------------------------------ value helpers
\* Optional values (Python None / SQL NULL): <<>> is None, <<v>> is v.
None == <<>>
Some(v) == <<v>>
IsNone(o) == Len(o) = 0
Get(o) == o[1]

Max(a, b) == IF a >= b THEN a ELSE b
Min(a, b) == IF a <= b THEN a ELSE b

\* Python round(x, 2) of x = n/100 cents, n an integer number of
\* hundredths of a cent: round half to even.
RoundHalfEven(n, d) ==
    LET q == n \div d
        r == n % d
    IN  IF 2 * r < d THEN q
        ELSE IF 2 * r > d THEN q + 1
        ELSE IF q % 2 = 0 THEN q ELSE q + 1

\* Characters are one-letter strings; a transaction id is a sequence of them.
LowerCase == <<"a","b","c","d","e","f","g","h","i","j","k","l","m",
               "n","o","p","q","r","s","t","u","v","w","x","y","z">>
UpperCase == <<"A","B","C","D","E","F","G","H","I","J","K","L","M",
               "N","O","P","Q","R","S","T","U","V","W","X","Y","Z">>

\* str.upper(), character by character.
UpperChar(c) ==
    IF \E i \in 1..26 : LowerCase[i] = c
    THEN UpperCase[CHOOSE i \in 1..26 : LowerCase[i] = c]
    ELSE c
Upper(s) == [i \in 1..Len(s) |-> UpperChar(s[i])]

\* str.startswith(prefix)
StartsWith(s, prefix) ==
    /\ Len(s) >= Len(prefix)
    /\ SubSeq(s, 1, Len(prefix)) = prefix

INVALID_MARKER == <<"I","N","V","A","L","I","D">>

\* ------------------------------------------------------------- input sets
Users == {"u1", "u2"}
Procs == {"p1", "p2"}
PaymentMethod == {"payeer", "faucetpay"}

TX_VALID8    == <<"T","E","S","T","T","X","0","1">>
TX_SHORT7    == <<"T","E","S","T","T","X","1">>
TX_INVALID   == <<"I","N","V","A","L","I","D","_","1">>
TX_invalid   == <<"i","n","v","a","l","i","d","_","1">>

TxIds == {TX_VALID8, TX_SHORT7, TX_INVALID, TX_invalid}

\* request.amount: Optional[float]; cents.  0.10, 100.00, -2000.00, 0, absent.
Amounts == {None, Some(0), Some(10), Some(10000), Some(0 - 200000)}

\* ------------------------------------------------------------------ state
VARIABLES
    game_states,                \* user -> rows of public.game_states (0 or 1)
    mining_rigs,                \* rows of public.mining_rigs, in insertion order
    transactions,               \* rows of public.transactions (the ledger)
    transaction_verifications,  \* rows of public.transaction_verifications
    pc,                         \* per request slot: the next datastore call
    req,                        \* per request slot: the request being served
    loc,                        \* per request slot: the handler's local variables
    resp,                       \* per request slot: the response of the last request
    nreq,                       \* number of requests started
    now,                        \* the datastore's clock now(), in seconds
    completed,                  \* history: (user, transaction id) pairs for which
                                \* a verify-transaction request has returned 200
    active_connections,         \* manager.active_connections: a dict, here a
                                \* function from its keys (user ids) to sets
                                \* of sockets
    sockets,                    \* per WebSocket: connection state, the user id
                                \* of its path, texts sent to and by the client
    upgrades                    \* public.upgrades: user -> upgrade type ->
                                \* current_level (0 where there is no row)

db == <<game_states, mining_rigs, transactions, transaction_verifications>>
ws == <<active_connections, sockets>>
vars == <<game_states, mining_rigs, transactions, transaction_verifications,
          pc, req, loc, resp, nreq, now, completed, active_connections,
          sockets, upgrades>>

\* public.upgrades.upgrade_type, the CHECK constraint of the column.
UpgradeType == {"ENERGY_REGEN", "CLICK_POWER", "AUTO_MINING", "MAX_ENERGY"}

\* No row of public.upgrades: every level is the default 0.
NoUpgrades == [u \in Users |-> [t \in UpgradeType |-> 0]]

\* The WebSocket objects of the process and the state of one that no client
\* has opened yet.
Sockets == {"w1", "w2"}
NewSocket ==
    [ state |-> "new", user_id |-> "", outbox |-> <<>>, inbound |-> 0,
      failed |-> FALSE ]

\* manager.active_connections after __init__: the empty dict.
NoConnections == [u \in {} |-> {}]

\* The sockets registered under a user id: none when the key is absent.
Registered(user_id) ==
    IF user_id \in DOMAIN active_connections
    THEN active_connections[user_id]
    ELSE {}

NoRequest == [op |-> "none"]
NoLocals == [empty |-> TRUE]
NoResponse == [code |-> 0]

\* The row the game_states table gives a new user: the column defaults,
\* which are also the values of initial_state in get_game_state.
DefaultGameState ==
    [ current_level |-> 1,
      experience_points |-> 0,
      current_coins |-> INITIAL_COINS,
      main_balance |-> INITIAL_COINS,
      bonus_balance |-> 0,
      energy |-> INITIAL_ENERGY,
      max_energy |-> INITIAL_ENERGY,
      click_power |-> 1,
      auto_mining_rate |-> 0,
      total_clicks |-> 0,
      mining_session_start_at |-> None ]

\* Every user has a profile.  The game_states row is either the one the
\* on_auth_user_created trigger inserted at registration or is still missing
\* (a profile created without the trigger); nothing else is stored.
Init ==
    /\ game_states \in [Users -> {<<>>, <<DefaultGameState>>}]
    /\ mining_rigs = <<>>
    /\ transactions = <<>>
    /\ transaction_verifications = <<>>
    /\ pc = [p \in Procs |-> "idle"]
    /\ req = [p \in Procs |-> NoRequest]
    /\ loc = [p \in Procs |-> NoLocals]
    /\ resp = [p \in Procs |-> NoResponse]
    /\ nreq = 0
    /\ now = 0
    /\ completed = {}
    /\ active_connections = NoConnections
    /\ sockets = [w \in Sockets |-> NewSocket]
    /\ upgrades = NoUpgrades

Free(p) == pc[p] \in {"idle", "done"}

\* A handler returns (or raises HTTPException): the slot holds the response
\* until the next request starts in it.
Return(p, r) ==
    /\ pc' = [pc EXCEPT ![p] = "done"]
    /\ resp' = [resp EXCEPT ![p] = r]

\* ------------------------------------------- POST /api/verify-transaction
\* A request arrives and passes get_current_user.
BeginVerify(p, u, tid, method, amount, currency) ==
    /\ Free(p)
    /\ pc' = [pc EXCEPT ![p] = "v_existing"]
    /\ req' = [req EXCEPT ![p] =
                 [ op |-> "verify", user |-> u, transaction_id |-> tid,
                   payment_method |-> method, amount |-> amount,
                   currency |-> currency ]]
    /\ loc' = [loc EXCEPT ![p] = NoLocals]
    /\ resp' = [resp EXCEPT ![p] = NoResponse]
    /\ nreq' = nreq + 1
    /\ UNCHANGED <<db, now, completed>>

\* is_valid = len(transaction_id) >= 8 and
\*            not transaction_id.upper().startswith('INVALID')
IsValidTxMutLengthOnly(tid) == Len(tid) >= MIN_TXID_LEN
IsValidTxMutStrict(tid) ==
    /\ Len(tid) > MIN_TXID_LEN
    /\ ~ StartsWith(Upper(tid), INVALID_MARKER)
IsValidTx(tid) ==
    /\ Len(tid) >= MIN_TXID_LEN
    /\ ~ StartsWith(Upper(tid), INVALID_MARKER)

\* amount = request.amount or (10.0 if payment_method == PAYEER else 5.0):
\* None and 0 are both falsy.
EffectiveAmount(amount, method) ==
    IF IsNone(amount) \/ Get(amount) = 0
    THEN (IF method = "payeer" THEN PAYEER_DEFAULT_AMOUNT
                               ELSE FAUCETPAY_DEFAULT_AMOUNT)
    ELSE Get(amount)

\* bonus_amount = round(amount * 0.17, 2)
BonusAmount(amount) == RoundHalfEven(amount * BONUS_PERCENT, 100)

\* select('*').eq('user_id', u).eq('transaction_id', tid): the matching rows.
ExistingVerifications(u, tid) ==
    LET Match(v) == v.user_id = u /\ v.transaction_id = tid
    IN  SelectSeq(transaction_verifications, Match)

AlreadyProcessed(r, v) ==
    [ code |-> 200, transaction_id |-> r.transaction_id,
      verified |-> (v.status = "verified"), status |-> v.status,
      amount |-> v.amount, bonus_amount |-> v.bonus_amount,
      message |-> "Transaction already processed" ]

\* existing = select from transaction_verifications; if existing.data:
\* return the stored outcome.  The select has no ORDER BY, so data[0] is any
\* matching row.  Otherwise is_valid and amount are computed.
VerifyExistingMutIgnore(p) ==
    /\ pc[p] = "v_existing"
    /\ LET r == req[p]
           amount == EffectiveAmount(r.amount, r.payment_method)
       IN  /\ loc' = [loc EXCEPT ![p] = [ amount |-> amount ]]
           /\ pc' = [pc EXCEPT ![p] =
                       IF IsValidTx(r.transaction_id)
                       THEN "v_insert_verified" ELSE "v_insert_not_found"]
           /\ UNCHANGED <<resp, completed>>
    /\ UNCHANGED <<db, req, nreq, now>>
VerifyExisting(p) ==
    /\ pc[p] = "v_existing"
    /\ LET r == req[p]
           existing == ExistingVerifications(r.user, r.transaction_id)
           amount == EffectiveAmount(r.amount, r.payment_method)
       IN  IF Len(existing) > 0
           THEN /\ \E i \in 1..Len(existing) :
                       Return(p, AlreadyProcessed(r, existing[i]))
                /\ completed' = completed \cup {<<r.user, r.transaction_id>>}
                /\ UNCHANGED loc
           ELSE /\ loc' = [loc EXCEPT ![p] = [ amount |-> amount ]]
                /\ pc' = [pc EXCEPT ![p] =
                            IF IsValidTx(r.transaction_id)
                            THEN "v_insert_verified" ELSE "v_insert_not_found"]
                /\ UNCHANGED <<resp, completed>>
    /\ UNCHANGED <<db, req, nreq, now>>

\* transaction_verifications.insert({... 'status': 'verified', ...})
VerifyInsertVerified(p) ==
    /\ pc[p] = "v_insert_verified"
    /\ LET r == req[p]
           bonus_amount == BonusAmount(loc[p].amount)
       IN  /\ transaction_verifications' =
                 Append(transaction_verifications,
                   [ user_id |-> r.user, transaction_id |-> r.transaction_id,
                     amount |-> loc[p].amount, currency |-> r.currency,
                     payment_method |-> r.payment_method,
                     status |-> "verified", bonus_amount |-> bonus_amount ])
           /\ loc' = [loc EXCEPT ![p] =
                        [ amount |-> loc[p].amount,
                          bonus_amount |-> bonus_amount ]]
    /\ pc' = [pc EXCEPT ![p] = "v_read_state"]
    /\ UNCHANGED <<game_states, mining_rigs, transactions,
                   req, resp, nreq, now, completed>>

\* game_state = select current_coins, main_balance, bonus_balance;
\* each is 0 when the user has no row.
VerifyReadState(p) ==
    /\ pc[p] = "v_read_state"
    /\ LET data == game_states[req[p].user]
           has == Len(data) > 0
           current_balance == IF has THEN data[1].current_coins ELSE 0
           current_main == IF has THEN data[1].main_balance ELSE 0
           current_bonus == IF has THEN data[1].bonus_balance ELSE 0
           amount == loc[p].amount
           bonus_amount == loc[p].bonus_amount
           total_credit == amount + bonus_amount
       IN  loc' = [loc EXCEPT ![p] =
                     [ amount |-> amount, bonus_amount |-> bonus_amount,
                       has_row |-> has,
                       current_balance |-> current_balance,
                       current_main |-> current_main,
                       current_bonus |-> current_bonus,
                       total_credit |-> total_credit,
                       new_balance |-> current_balance + total_credit,
                       new_main |-> current_main + amount,
                       new_bonus |-> current_bonus + bonus_amount ]]
    /\ pc' = [pc EXCEPT ![p] = "v_update_state"]
    /\ UNCHANGED <<db, req, resp, nreq, now, completed>>

\* update(...).eq('user_id', user_id): rewrites the columns of the matching
\* rows, of which there is at most one.
UpdateGameStateMutNoFilter(u, data) ==
    game_states' = [v \in Users |->
                      [i \in 1..Len(game_states[v]) |->
                         [f \in DOMAIN game_states[v][i] |->
                            IF f \in DOMAIN data THEN data[f]
                            ELSE game_states[v][i][f]]]]
UpdateGameState(u, data) ==
    game_states' = [game_states EXCEPT ![u] =
                      [i \in 1..Len(@) |->
                         [f \in DOMAIN @[i] |->
                            IF f \in DOMAIN data THEN data[f] ELSE @[i][f]]]]

\* game_states.update({current_coins, main_balance, bonus_balance})
VerifyUpdateState(p) ==
    /\ pc[p] = "v_update_state"
    /\ UpdateGameState(req[p].user,
                       [ current_coins |-> loc[p].new_balance,
                         main_balance |-> loc[p].new_main,
                         bonus_balance |-> loc[p].new_bonus ])
    /\ pc' = [pc EXCEPT ![p] = "v_insert_ledger"]
    /\ UNCHANGED <<mining_rigs, transactions, transaction_verifications,
                   req, loc, resp, nreq, now, completed>>

\* transactions.insert({'transaction_type': 'deposit_bonus', ...}); return.
VerifyInsertLedger(p) ==
    /\ pc[p] = "v_insert_ledger"
    /\ LET r == req[p] IN
       /\ transactions' = Append(transactions,
             [ user_id |-> r.user, transaction_type |-> "deposit_bonus",
               amount |-> loc[p].total_credit,
               balance_before |-> loc[p].current_balance,
               balance_after |-> loc[p].new_balance,
               description |-> r.transaction_id,
               related_rig_id |-> None ])
       /\ Return(p, [ code |-> 200, transaction_id |-> r.transaction_id,
                      verified |-> TRUE, status |-> "verified",
                      amount |-> loc[p].amount,
                      bonus_amount |-> loc[p].bonus_amount,
                      message |-> "Transaction verified" ])
       /\ completed' = completed \cup {<<r.user, r.transaction_id>>}
    /\ UNCHANGED <<game_states, mining_rigs, transaction_verifications,
                   req, loc, nreq, now>>

\* transaction_verifications.insert({... 'status': 'not_found'}); return.
\* bonus_amount is not sent: the column default 0.00 is stored.
VerifyInsertNotFound(p) ==
    /\ pc[p] = "v_insert_not_found"
    /\ LET r == req[p] IN
       /\ transaction_verifications' =
             Append(transaction_verifications,
               [ user_id |-> r.user, transaction_id |-> r.transaction_id,
                 amount |-> loc[p].amount, currency |-> r.currency,
                 payment_method |-> r.payment_method,
                 status |-> "not_found", bonus_amount |-> 0 ])
       /\ Return(p, [ code |-> 200, transaction_id |-> r.transaction_id,
                      verified |-> FALSE, status |-> "not_found",
                      amount |-> loc[p].amount, bonus_amount |-> 0,
                      message |-> "Transaction not found or invalid" ])
       /\ completed' = completed \cup {<<r.user, r.transaction_id>>}
    /\ UNCHANGED <<game_states, mining_rigs, transactions, req, loc, nreq, now>>

VerifyStep(p) ==
    \/ VerifyExisting(p)
    \/ VerifyInsertVerified(p)
    \/ VerifyReadState(p)
    \/ VerifyUpdateState(p)
    \/ VerifyInsertLedger(p)
    \/ VerifyInsertNotFound(p)

\* ------------------------------------------------- POST /api/mining-rigs
\* rig_configs: power and efficiency in 1/100, cost in cents.
rig_configs ==
    [ basic_cpu      |-> [power |-> 50,    efficiency |-> 100, cost |-> 10000,    rarity |-> "common"],
      entry_gpu      |-> [power |-> 80,    efficiency |-> 100, cost |-> 20000,    rarity |-> "common"],
      dual_core      |-> [power |-> 120,   efficiency |-> 105, cost |-> 30000,    rarity |-> "common"],
      quad_core      |-> [power |-> 200,   efficiency |-> 110, cost |-> 50000,    rarity |-> "uncommon"],
      gtx_miner      |-> [power |-> 250,   efficiency |-> 115, cost |-> 70000,    rarity |-> "uncommon"],
      asic_basic     |-> [power |-> 300,   efficiency |-> 120, cost |-> 90000,    rarity |-> "uncommon"],
      rtx_3080       |-> [power |-> 420,   efficiency |-> 125, cost |-> 150000,   rarity |-> "rare"],
      asic_s19       |-> [power |-> 500,   efficiency |-> 130, cost |-> 200000,   rarity |-> "rare"],
      custom_rig     |-> [power |-> 580,   efficiency |-> 120, cost |-> 250000,   rarity |-> "rare"],
      rtx_4090       |-> [power |-> 850,   efficiency |-> 140, cost |-> 400000,   rarity |-> "epic"],
      asic_s21       |-> [power |-> 1000,  efficiency |-> 150, cost |-> 500000,   rarity |-> "epic"],
      quantum_chip   |-> [power |-> 1200,  efficiency |-> 200, cost |-> 750000,   rarity |-> "epic"],
      ai_processor   |-> [power |-> 1800,  efficiency |-> 175, cost |-> 1200000,  rarity |-> "legendary"],
      fusion_reactor |-> [power |-> 2200,  efficiency |-> 200, cost |-> 2000000,  rarity |-> "legendary"],
      black_hole     |-> [power |-> 5000,  efficiency |-> 200, cost |-> 5000000,  rarity |-> "mythic"],
      mainet_core    |-> [power |-> 10000, efficiency |-> 500, cost |-> 10000000, rarity |-> "mythic"] ]

RigType == DOMAIN rig_configs

BeginRig(p, u, rig_type) ==
    /\ Free(p)
    /\ pc' = [pc EXCEPT ![p] = "r_read_balance"]
    /\ req' = [req EXCEPT ![p] =
                 [ op |-> "rig", user |-> u, rig_type |-> rig_type ]]
    /\ loc' = [loc EXCEPT ![p] = NoLocals]
    /\ resp' = [resp EXCEPT ![p] = NoResponse]
    /\ nreq' = nreq + 1
    /\ UNCHANGED <<db, now, completed>>

\* if not game_state.data or current_coins < config['cost']: 400
InsufficientBalanceMutLeq(data, cost) ==
    Len(data) = 0 \/ data[1].current_coins <= cost
InsufficientBalance(data, cost) ==
    Len(data) = 0 \/ data[1].current_coins < cost

\* game_state = select current_coins; the balance check.
RigReadBalance(p) ==
    /\ pc[p] = "r_read_balance"
    /\ LET data == game_states[req[p].user]
           config == rig_configs[req[p].rig_type]
       IN  IF InsufficientBalance(data, config.cost)
           THEN /\ Return(p, [code |-> 400, detail |-> "Insufficient balance"])
                /\ UNCHANGED loc
           ELSE /\ loc' = [loc EXCEPT ![p] =
                             [ has_row |-> TRUE,
                               current_balance |-> data[1].current_coins,
                               total_credit |-> 0 - config.cost,
                               new_balance |-> data[1].current_coins - config.cost ]]
                /\ pc' = [pc EXCEPT ![p] = "r_insert_rig"]
                /\ UNCHANGED resp
    /\ UNCHANGED <<db, req, nreq, now, completed>>

\* created_rig = mining_rigs.insert(new_rig); the row's id is its position.
RigInsert(p) ==
    /\ pc[p] = "r_insert_rig"
    /\ LET config == rig_configs[req[p].rig_type]
           id == Len(mining_rigs) + 1
       IN  /\ mining_rigs' = Append(mining_rigs,
                 [ id |-> id, user_id |-> req[p].user,
                   rig_type |-> req[p].rig_type,
                   mining_power |-> config.power,
                   efficiency_rating |-> config.efficiency,
                   rarity |-> config.rarity,
                   purchase_price |-> config.cost,
                   is_active |-> TRUE ])
           /\ loc' = [loc EXCEPT ![p] =
                        [ has_row |-> TRUE,
                          current_balance |-> loc[p].current_balance,
                          total_credit |-> loc[p].total_credit,
                          new_balance |-> loc[p].new_balance,
                          rig_id |-> id ]]
    /\ pc' = [pc EXCEPT ![p] = "r_update_state"]
    /\ UNCHANGED <<game_states, transactions, transaction_verifications,
                   req, resp, nreq, now, completed>>

\* new_balance = game_state.data[0]['current_coins'] - config['cost']
\* game_states.update({'current_coins': new_balance, 'main_balance': new_balance})
RigUpdateStateMutDecrement(p) ==
    /\ pc[p] = "r_update_state"
    /\ game_states' = [game_states EXCEPT ![req[p].user] =
          [i \in 1..Len(@) |->
             [@[i] EXCEPT !.current_coins = @ + loc[p].total_credit,
                          !.main_balance = @ + loc[p].total_credit]]]
    /\ pc' = [pc EXCEPT ![p] = "r_insert_ledger"]
    /\ UNCHANGED <<mining_rigs, transactions, transaction_verifications,
                   req, loc, resp, nreq, now, completed>>
RigUpdateState(p) ==
    /\ pc[p] = "r_update_state"
    /\ UpdateGameState(req[p].user,
                       [ current_coins |-> loc[p].new_balance,
                         main_balance |-> loc[p].new_balance ])
    /\ pc' = [pc EXCEPT ![p] = "r_insert_ledger"]
    /\ UNCHANGED <<mining_rigs, transactions, transaction_verifications,
                   req, loc, resp, nreq, now, completed>>

\* transactions.insert({'transaction_type': 'purchase', ...}); return the rig.
RigInsertLedgerMutReread(p) ==
    /\ pc[p] = "r_insert_ledger"
    /\ transactions' = Append(transactions,
          [ user_id |-> req[p].user, transaction_type |-> "purchase",
            amount |-> loc[p].total_credit,
            balance_before |-> game_states[req[p].user][1].current_coins,
            balance_after |-> loc[p].new_balance,
            description |-> req[p].rig_type,
            related_rig_id |-> Some(loc[p].rig_id) ])
    /\ Return(p, [code |-> 200, rig |-> mining_rigs[loc[p].rig_id]])
    /\ UNCHANGED <<game_states, mining_rigs, transaction_verifications,
                   req, loc, nreq, now, completed>>
RigInsertLedger(p) ==
    /\ pc[p] = "r_insert_ledger"
    /\ transactions' = Append(transactions,
          [ user_id |-> req[p].user, transaction_type |-> "purchase",
            amount |-> loc[p].total_credit,
            balance_before |-> loc[p].current_balance,
            balance_after |-> loc[p].new_balance,
            description |-> req[p].rig_type,
            related_rig_id |-> Some(loc[p].rig_id) ])
    /\ Return(p, [code |-> 200, rig |-> mining_rigs[loc[p].rig_id]])
    /\ UNCHANGED <<game_states, mining_rigs, transaction_verifications,
                   req, loc, nreq, now, completed>>

RigStep(p) ==
    \/ RigReadBalance(p)
    \/ RigInsert(p)
    \/ RigUpdateState(p)
    \/ RigInsertLedger(p)

\* --------------------------------------------------- POST /api/game/state
\* GameStateUpdate: the fields a body supplies.  current_coins is an int
\* (whole coins), main_balance a float; both are kept in cents here.
NoUpdate ==
    [ current_level |-> None, experience_points |-> None,
      current_coins |-> None, main_balance |-> None,
      energy |-> None, max_energy |-> None,
      click_power |-> None, auto_mining_rate |-> None,
      total_clicks |-> None ]

BeginSave(p, u, body) ==
    /\ Free(p)
    /\ pc' = [pc EXCEPT ![p] = "s_update"]
    /\ req' = [req EXCEPT ![p] = [ op |-> "save", user |-> u, body |-> body ]]
    /\ loc' = [loc EXCEPT ![p] = NoLocals]
    /\ resp' = [resp EXCEPT ![p] = NoResponse]
    /\ nreq' = nreq + 1
    /\ UNCHANGED <<db, now, completed>>

\* update_data: max(1, .) for current_level, max(0, .) for
\* experience_points, current_coins and main_balance; energy, max_energy,
\* click_power, auto_mining_rate and total_clicks are copied as given.
ApplyUpdateMutNoClamp(row, body) ==
    [ f \in DOMAIN row |->
        IF f \in DOMAIN body /\ ~ IsNone(body[f]) THEN Get(body[f]) ELSE row[f] ]
ApplyUpdate(row, body) ==
    [ row EXCEPT
        !.current_level = IF IsNone(body.current_level) THEN @
                          ELSE Max(1, Get(body.current_level)),
        !.experience_points = IF IsNone(body.experience_points) THEN @
                              ELSE Max(0, Get(body.experience_points)),
        !.current_coins = IF IsNone(body.current_coins) THEN @
                          ELSE Max(0, Get(body.current_coins)),
        !.main_balance = IF IsNone(body.main_balance) THEN @
                         ELSE Max(0, Get(body.main_balance)),
        !.energy = IF IsNone(body.energy) THEN @ ELSE Get(body.energy),
        !.max_energy = IF IsNone(body.max_energy) THEN @
                       ELSE Get(body.max_energy),
        !.click_power = IF IsNone(body.click_power) THEN @
                        ELSE Get(body.click_power),
        !.auto_mining_rate = IF IsNone(body.auto_mining_rate) THEN @
                             ELSE Get(body.auto_mining_rate),
        !.total_clicks = IF IsNone(body.total_clicks) THEN @
                         ELSE Get(body.total_clicks) ]

\* ConnectionManager.send_personal_message: send_text to every socket
\* registered under user_id (a copy of the set taken at the start); a socket
\* whose send raises (its client is gone) is discarded from the set.
send_personal_messageMutAllUsers(message, user_id) ==
    LET copy == UNION { Registered(u) : u \in Users }
        delivered == { w \in copy : sockets[w].state = "open" }
    IN  /\ sockets' = [w \in Sockets |->
                         IF w \in delivered
                         THEN [sockets[w] EXCEPT !.outbox = Append(@, message)]
                         ELSE IF w \in copy
                         THEN [sockets[w] EXCEPT !.failed = TRUE]
                         ELSE sockets[w]]
        /\ active_connections' =
              [u \in DOMAIN active_connections |->
                 active_connections[u] \cap delivered]
send_personal_message(message, user_id) ==
    LET copy == Registered(user_id)
        delivered == { w \in copy : sockets[w].state = "open" }
    IN  /\ sockets' = [w \in Sockets |->
                         IF w \in delivered
                         THEN [sockets[w] EXCEPT !.outbox = Append(@, message)]
                         ELSE IF w \in copy
                         THEN [sockets[w] EXCEPT !.failed = TRUE]
                         ELSE sockets[w]]
        /\ active_connections' =
              [u \in DOMAIN active_connections |->
                 IF u = user_id THEN delivered ELSE active_connections[u]]

\* if update_data: game_states.update(update_data); the broadcast to the
\* user's sockets follows, with updated_state.data[0]; the response is
\* updated_state.data[0], which raises IndexError (caught: 500) when the
\* user has no row.  With no field supplied nothing is written.
SaveUpdate(p) ==
    /\ pc[p] = "s_update"
    /\ LET u == req[p].user
           body == req[p].body
       IN  IF body = NoUpdate
           THEN /\ Return(p, [code |-> 200, message |-> "No changes made"])
                /\ UNCHANGED <<game_states, ws>>
           ELSE /\ game_states' = [game_states EXCEPT ![u] =
                      [i \in 1..Len(@) |-> ApplyUpdate(@[i], body)]]
                /\ IF Len(game_states[u]) = 0
                   THEN /\ Return(p, [code |-> 500,
                                      detail |-> "Failed to save game state"])
                        /\ UNCHANGED <<ws, upgrades>>
                   ELSE /\ send_personal_message(
                              [ type |-> "game_state_updated",
                                data |-> ApplyUpdate(game_states[u][1], body) ],
                              u)
                        /\ Return(p, [code |-> 200,
                                      data |-> ApplyUpdate(game_states[u][1], body)])
    /\ UNCHANGED <<mining_rigs, transactions, transaction_verifications,
                   req, loc, nreq, now, completed>>

\* ---------------------------------------------------- GET /api/game/state
BeginGet(p, u) ==
    /\ Free(p)
    /\ pc' = [pc EXCEPT ![p] = "g_select"]
    /\ req' = [req EXCEPT ![p] = [ op |-> "get", user |-> u ]]
    /\ loc' = [loc EXCEPT ![p] = NoLocals]
    /\ resp' = [resp EXCEPT ![p] = NoResponse]
    /\ nreq' = nreq + 1
    /\ UNCHANGED <<db, now, completed>>

\* game_state_result = select('*').eq('user_id', user_id)
GetSelect(p) ==
    /\ pc[p] = "g_select"
    /\ LET data == game_states[req[p].user]
       IN  IF Len(data) = 0
           THEN /\ pc' = [pc EXCEPT ![p] = "g_insert"]
                /\ UNCHANGED loc
           ELSE /\ pc' = [pc EXCEPT ![p] = "g_settle"]
                /\ loc' = [loc EXCEPT ![p] = [ game_state |-> data[1] ]]
    /\ UNCHANGED <<db, req, resp, nreq, now, completed>>

\* created_state = game_states.insert(initial_state).  user_id is UNIQUE: the
\* insert fails (caught: 500) when a row has appeared since the select.
GetInsertMutNoUnique(p) ==
    /\ pc[p] = "g_insert"
    /\ LET u == req[p].user
       IN  /\ game_states' = [game_states EXCEPT ![u] =
                                Append(@, DefaultGameState)]
           /\ Return(p, [code |-> 200, data |-> DefaultGameState])
    /\ UNCHANGED <<mining_rigs, transactions, transaction_verifications,
                   req, loc, nreq, now, completed>>
GetInsert(p) ==
    /\ pc[p] = "g_insert"
    /\ LET u == req[p].user
       IN  IF Len(game_states[u]) = 0
           THEN /\ game_states' = [game_states EXCEPT ![u] = <<DefaultGameState>>]
                /\ Return(p, [code |-> 200, data |-> DefaultGameState])
           ELSE /\ UNCHANGED game_states
                /\ Return(p, [code |-> 500,
                              detail |-> "Failed to fetch game state"])
    /\ UNCHANGED <<mining_rigs, transactions, transaction_verifications,
                   req, loc, nreq, now, completed>>

\* Postgres rounds a numeric to the scale of its target: half away from zero.
RoundHalfUp(n, d) == (2 * n + d) \div (2 * d)

MAX_OFFLINE_HOURS == 24
SECONDS_PER_HOUR == 3600

\* SUM(mining_power * efficiency_rating) over the user's active rigs, into
\* decimal(8,2): in 1/100.
TotalHashrate(u) ==
    LET S[i \in 0..Len(mining_rigs)] ==
            IF i = 0 THEN 0
            ELSE S[i-1] +
                 (IF mining_rigs[i].user_id = u /\ mining_rigs[i].is_active
                  THEN mining_rigs[i].mining_power
                       * mining_rigs[i].efficiency_rating
                  ELSE 0)
    IN  RoundHalfUp(S[Len(mining_rigs)], 100)

\* offline_hours := LEAST(EXTRACT(EPOCH FROM (now() - last_session)) / 3600, 24)
\* assigned to decimal(8,2): in 1/100 hour, of a clock in seconds.
OfflineHoursMutNoClamp(last_session) ==
    RoundHalfUp((now - last_session) * 100, SECONDS_PER_HOUR)
OfflineHours(last_session) ==
    RoundHalfUp(Min((now - last_session) * 100,
                    MAX_OFFLINE_HOURS * SECONDS_PER_HOUR * 100),
                SECONDS_PER_HOUR)

\* offline_rewards := total_hashrate * offline_hours * 0.1, into
\* decimal(15,2): cents.
OfflineRewards(u, last_session) ==
    RoundHalfUp(TotalHashrate(u) * OfflineHours(last_session), 1000)

\* offline_rewards = await calculate_offline_rewards(user_id): the SQL
\* function, one datastore call.  With mining_session_start_at NULL it
\* returns 0 and writes nothing; otherwise it moves the anchor to now().
\* The handler goes on to credit the rewards only when they are positive.
GetSettleMutKeepAnchor(p) ==
    /\ pc[p] = "g_settle"
    /\ LET u == req[p].user
           last_session == game_states[u][1].mining_session_start_at
           offline_rewards ==
               IF IsNone(last_session) THEN 0
               ELSE OfflineRewards(u, Get(last_session))
       IN  /\ UNCHANGED game_states
           /\ IF offline_rewards > 0
              THEN /\ pc' = [pc EXCEPT ![p] = "g_credit"]
                   /\ loc' = [loc EXCEPT ![p] =
                                [ game_state |-> loc[p].game_state,
                                  offline_rewards |-> offline_rewards ]]
                   /\ UNCHANGED resp
              ELSE /\ Return(p, [code |-> 200, data |-> loc[p].game_state])
                   /\ UNCHANGED loc
    /\ UNCHANGED <<mining_rigs, transactions, transaction_verifications,
                   req, nreq, now, completed>>
GetSettle(p) ==
    /\ pc[p] = "g_settle"
    /\ LET u == req[p].user
           last_session == game_states[u][1].mining_session_start_at
           offline_rewards ==
               IF IsNone(last_session) THEN 0
               ELSE OfflineRewards(u, Get(last_session))
       IN  /\ IF IsNone(last_session)
              THEN UNCHANGED game_states
              ELSE UpdateGameState(u, [mining_session_start_at |-> Some(now)])
           /\ IF offline_rewards > 0
              THEN /\ pc' = [pc EXCEPT ![p] = "g_credit"]
                   /\ loc' = [loc EXCEPT ![p] =
                                [ game_state |-> loc[p].game_state,
                                  offline_rewards |-> offline_rewards ]]
                   /\ UNCHANGED resp
              ELSE /\ Return(p, [code |-> 200, data |-> loc[p].game_state])
                   /\ UNCHANGED loc
    /\ UNCHANGED <<mining_rigs, transactions, transaction_verifications,
                   req, nreq, now, completed>>

\* game_states.update({'current_coins': game_state['current_coins'] +
\* offline_rewards, 'main_balance': ...}); return game_state.
GetCredit(p) ==
    /\ pc[p] = "g_credit"
    /\ LET gs == loc[p].game_state
           rewards == loc[p].offline_rewards
           credited == [gs EXCEPT
                          !.current_coins = gs.current_coins + rewards,
                          !.main_balance = gs.main_balance + rewards]
       IN  /\ UpdateGameState(req[p].user,
                              [ current_coins |-> credited.current_coins,
                                main_balance |-> credited.main_balance ])
           /\ Return(p, [code |-> 200, data |-> credited,
                         offline_rewards |-> rewards])
    /\ UNCHANGED <<mining_rigs, transactions, transaction_verifications,
                   req, loc, nreq, now, completed>>

\* No handler writes mining_session_start_at and every row starts with it
\* NULL, so under Init the settlement always returns 0 and GetCredit is never
\* enabled.
GetStep(p) ==
    \/ GetSelect(p)
    \/ GetInsert(p)
    \/ GetSettle(p)

\* ------------------------------------------------------- specifications
\* The request bodies the specifications draw from.
VerifyBodies ==
    { [payment_method |-> "payeer",    amount |-> Some(10000),      currency |-> "USD"],
      [payment_method |-> "faucetpay", amount |-> Some(0 - 200000), currency |-> "USD"],
      [payment_method |-> "payeer",    amount |-> None,             currency |-> "EUR"] }
SpecTxIds == {TX_VALID8, TX_INVALID}
SpecRigTypes == {"basic_cpu", "asic_basic"}
SaveBodies ==
    { NoUpdate,
      [NoUpdate EXCEPT !.current_coins = Some(0 - 50000), !.main_balance = Some(0 - 1)],
      [NoUpdate EXCEPT !.current_coins = Some(10000)],
      [NoUpdate EXCEPT !.energy = Some(150)],
      [NoUpdate EXCEPT !.energy = Some(0 - 1), !.max_energy = Some(50)] }
SpecUsers == {"u1"}

\* A request is served in the first free slot.
FirstFree(p) == Free(p) /\ (p = "p2" => ~ Free("p1"))

\* The HTTP API: up to two requests in flight, interleaved between any two
\* datastore calls.
Next ==
    \/ /\ nreq < MaxReqs
       /\ \E p \in Procs, u \in SpecUsers, tid \in SpecTxIds, b \in VerifyBodies :
             /\ FirstFree(p)
             /\ BeginVerify(p, u, tid, b.payment_method, b.amount, b.currency)
       /\ UNCHANGED <<ws, upgrades>>
    \/ /\ nreq < MaxReqs
       /\ \E p \in Procs, u \in SpecUsers, t \in SpecRigTypes :
             FirstFree(p) /\ BeginRig(p, u, t)
       /\ UNCHANGED <<ws, upgrades>>
    \/ /\ nreq < MaxReqs
       /\ \E p \in Procs, u \in SpecUsers, body \in SaveBodies :
             FirstFree(p) /\ BeginSave(p, u, body)
       /\ UNCHANGED <<ws, upgrades>>
    \/ /\ nreq < MaxReqs
       /\ \E p \in Procs, u \in SpecUsers : FirstFree(p) /\ BeginGet(p, u)
       /\ UNCHANGED <<ws, upgrades>>
    \/ (\E p \in Procs : VerifyStep(p)) /\ UNCHANGED <<ws, upgrades>>
    \/ (\E p \in Procs : RigStep(p)) /\ UNCHANGED <<ws, upgrades>>
    \/ (\E p \in Procs : SaveUpdate(p)) /\ UNCHANGED upgrades
    \/ (\E p \in Procs : GetStep(p)) /\ UNCHANGED <<ws, upgrades>>

Spec == Init /\ [][Next]_vars

\* Sequential use of verify-transaction by one user: one request at a time,
\* every payment method with every amount, in either currency.
SeqVerifyBodies ==
    { [payment_method |-> m, amount |-> a, currency |-> "USD"] :
          m \in PaymentMethod, a \in Amounts }
    \cup { [payment_method |-> "payeer", amount |-> Some(10), currency |-> "EUR"],
           [payment_method |-> "faucetpay", amount |-> None, currency |-> "EUR"] }

NextVerify ==
    \/ /\ nreq < MaxVerifyReqs
       /\ \E u \in SpecUsers, tid \in TxIds, b \in SeqVerifyBodies :
             BeginVerify("p1", u, tid, b.payment_method, b.amount, b.currency)
       /\ UNCHANGED <<ws, upgrades>>
    \/ VerifyStep("p1") /\ UNCHANGED <<ws, upgrades>>

VerifySpec == Init /\ [][NextVerify]_vars

\* ------------------------------------------------------ offline rewards
\* The instants at which the datastore's clock is read, in seconds: 10 s,
\* 1 h, 1 h 10 s, 12 h, 24 h, 25 h and 50 h after the start.
ClockValues == {10, 3600, 3610, 43200, 86400, 90000, 180000}

\* Time passes between two requests.
Tick(t) ==
    /\ t > now
    /\ \A p \in Procs : Free(p)
    /\ now' = t
    /\ UNCHANGED <<db, pc, req, loc, resp, nreq, completed>>

\* A rig row a client has switched off: the "Users can manage own mining
\* rigs" policy lets the owner write is_active directly.
InactiveRig(u) ==
    [ id |-> 1, user_id |-> u, rig_type |-> "quad_core",
      mining_power |-> rig_configs["quad_core"].power,
      efficiency_rating |-> rig_configs["quad_core"].efficiency,
      rarity |-> rig_configs["quad_core"].rarity,
      purchase_price |-> rig_configs["quad_core"].cost,
      is_active |-> FALSE ]

\* A registered user's row.  mining_session_start_at is NULL, as
\* registration and first access leave it, or holds the instant a client
\* wrote there (the "Users can manage own game state" policy lets the owner
\* write the column; no handler of the backend does).
OfflineInit ==
    /\ \E a \in {None, Some(0)} :
          game_states =
              [u \in Users |->
                 IF u \in SpecUsers
                 THEN <<[DefaultGameState EXCEPT !.mining_session_start_at = a]>>
                 ELSE <<>>]
    /\ mining_rigs \in {<<>>, <<InactiveRig("u1")>>}
    /\ transactions = <<>>
    /\ transaction_verifications = <<>>
    /\ pc = [p \in Procs |-> "idle"]
    /\ req = [p \in Procs |-> NoRequest]
    /\ loc = [p \in Procs |-> NoLocals]
    /\ resp = [p \in Procs |-> NoResponse]
    /\ nreq = 0
    /\ now = 0
    /\ completed = {}
    /\ active_connections = NoConnections
    /\ sockets = [w \in Sockets |-> NewSocket]
    /\ upgrades = NoUpgrades

\* One user's requests, one at a time, with time passing in between: rig
\* purchases and GET /game/state.
NextOffline ==
    \/ /\ nreq < MaxOfflineReqs
       /\ \E u \in SpecUsers, t \in SpecRigTypes : BeginRig("p1", u, t)
       /\ UNCHANGED <<ws, upgrades>>
    \/ /\ nreq < MaxOfflineReqs
       /\ \E u \in SpecUsers : BeginGet("p1", u)
       /\ UNCHANGED <<ws, upgrades>>
    \/ RigStep("p1") /\ UNCHANGED <<ws, upgrades>>
    \/ GetSelect("p1") /\ UNCHANGED <<ws, upgrades>>
    \/ GetSettle("p1") /\ UNCHANGED <<ws, upgrades>>
    \/ GetCredit("p1") /\ UNCHANGED <<ws, upgrades>>
    \/ (\E t \in ClockValues : Tick(t)) /\ UNCHANGED <<ws, upgrades>>

OfflineSpec == OfflineInit /\ [][NextOffline]_vars

\* ------------------------------------------------------- authentication
\* The Authorization header of a request: absent, or a bearer token that
\* is not a JWT, or a JWT with or without a "sub" claim.  The signature is
\* not verified (options={"verify_signature": False}), so any well-formed
\* JWT decodes.
NoCredential == [scheme |-> "none"]
Bearer(token) == [scheme |-> "bearer", credentials |-> token]
MalformedToken == [jwt |-> FALSE, sub |-> None]
JWT(sub) == [jwt |-> TRUE, sub |-> sub]

\* A user id that has no row in public.profiles.
NoProfileUser == "ghost"
Credentials ==
    { NoCredential, Bearer(MalformedToken), Bearer(JWT(None)),
      Bearer(JWT(Some("u1"))), Bearer(JWT(Some(NoProfileUser))) }

\* verify_jwt_token: the "sub" claim, or 401 for a token that does not
\* decode or carries no "sub".
verify_jwt_token(token) ==
    IF ~ token.jwt
    THEN [code |-> 401, detail |-> "Invalid token"]
    ELSE IF IsNone(token.sub)
         THEN [code |-> 401, detail |-> "Invalid token"]
         ELSE [code |-> 200, user_id |-> Get(token.sub)]

\* get_current_user, with its dependency security = HTTPBearer(): a request
\* without bearer credentials is refused with 403 'Not authenticated'
\* before get_current_user runs.  The 404 raised for a missing profile is
\* raised inside the try block, whose `except Exception` turns it into 500.
get_current_userMutAnonymous(credentials) ==
    IF credentials.scheme # "bearer"
    THEN [code |-> 200, user_id |-> "u1"]
    ELSE LET token == verify_jwt_token(credentials.credentials)
         IN  IF token.code # 200 THEN token
             ELSE IF token.user_id \notin Users
                  THEN [code |-> 500, detail |-> "Failed to fetch user profile"]
                  ELSE token
get_current_user(credentials) ==
    IF credentials.scheme # "bearer"
    THEN [code |-> 403, detail |-> "Not authenticated"]
    ELSE LET token == verify_jwt_token(credentials.credentials)
         IN  IF token.code # 200 THEN token
             ELSE IF token.user_id \notin Users
                  THEN [code |-> 500, detail |-> "Failed to fetch user profile"]
                  ELSE token

\* The protected routes, each with the request its handler is given; the
\* user is filled in from the credentials.
ProtectedRequests ==
    { [op |-> "logout", user |-> ""],
      [op |-> "get_profile", user |-> ""],
      [op |-> "put_profile", user |-> ""],
      [op |-> "get", user |-> ""],
      [op |-> "save", user |-> "",
       body |-> [NoUpdate EXCEPT !.current_coins = Some(10000)]],
      [op |-> "get_rigs", user |-> ""],
      [op |-> "rig", user |-> "", rig_type |-> "basic_cpu"],
      [op |-> "get_transactions", user |-> ""],
      [op |-> "verify", user |-> "", transaction_id |-> TX_VALID8,
       payment_method |-> "payeer", amount |-> Some(10000),
       currency |-> "USD"],
      [op |-> "verify", user |-> "", transaction_id |-> TX_INVALID,
       payment_method |-> "faucetpay", amount |-> None,
       currency |-> "USD"] }

\* The first datastore call of each handler.
FirstCall(op) ==
    CASE op = "verify" -> "v_existing"
      [] op = "rig" -> "r_read_balance"
      [] op = "save" -> "s_update"
      [] op = "get" -> "g_select"
      [] OTHER -> "o_body"

\* A request arrives on a protected route.
Arrive(p, credentials, request) ==
    /\ Free(p)
    /\ pc' = [pc EXCEPT ![p] = "auth"]
    /\ req' = [req EXCEPT ![p] =
                 [ op |-> "auth", credentials |-> credentials,
                   request |-> request ]]
    /\ loc' = [loc EXCEPT ![p] = NoLocals]
    /\ resp' = [resp EXCEPT ![p] = NoResponse]
    /\ nreq' = nreq + 1
    /\ UNCHANGED <<db, now, completed>>

\* Depends(get_current_user) is resolved: the request is answered with the
\* error, or the handler is called with current_user.
Authenticate(p) ==
    /\ pc[p] = "auth"
    /\ LET current_user == get_current_user(req[p].credentials)
       IN  IF current_user.code # 200
           THEN /\ Return(p, current_user)
                /\ UNCHANGED req
           ELSE /\ pc' = [pc EXCEPT ![p] = FirstCall(req[p].request.op)]
                /\ req' = [req EXCEPT ![p] =
                             [req[p].request EXCEPT
                                !.user = current_user.user_id]]
                /\ UNCHANGED resp
    /\ UNCHANGED <<db, loc, nreq, now, completed>>

\* The rows of a table that belong to a user.
RowsOf(table, u) ==
    SelectSeq(table, LAMBDA row : row.user_id = u)

\* logout_user, get_profile, update_profile, get_mining_rigs and
\* get_transactions: they read the user's rows and write none of the
\* tables of the model (update_profile writes the profile's own columns,
\* which the model does not hold).
OtherBody(p) ==
    /\ pc[p] = "o_body"
    /\ LET u == req[p].user
           op == req[p].op
       IN  CASE op = "logout" ->
                  Return(p, [code |-> 200, message |-> "Logout successful"])
             [] op = "get_rigs" ->
                  Return(p, [code |-> 200, data |-> RowsOf(mining_rigs, u)])
             [] op = "get_transactions" ->
                  Return(p, [code |-> 200,
                             transactions |-> RowsOf(transactions, u),
                             count |-> Len(RowsOf(transactions, u))])
             [] OTHER ->
                  Return(p, [code |-> 200,
                             game_state |-> game_states[u],
                             mining_rigs |-> RowsOf(mining_rigs, u)])
    /\ UNCHANGED <<db, req, loc, nreq, now, completed>>

\* Requests on the protected routes, one at a time, with any credentials.
NextAuth ==
    \/ /\ nreq < MaxAuthReqs
       /\ \E c \in Credentials, r \in ProtectedRequests : Arrive("p1", c, r)
       /\ UNCHANGED <<ws, upgrades>>
    \/ Authenticate("p1") /\ UNCHANGED <<ws, upgrades>>
    \/ OtherBody("p1") /\ UNCHANGED <<ws, upgrades>>
    \/ VerifyStep("p1") /\ UNCHANGED <<ws, upgrades>>
    \/ RigStep("p1") /\ UNCHANGED <<ws, upgrades>>
    \/ SaveUpdate("p1") /\ UNCHANGED upgrades
    \/ GetStep("p1") /\ UNCHANGED <<ws, upgrades>>

AuthSpec == Init /\ [][NextAuth]_vars

\* The credentials of the two users: each a token whose "sub" is the user.
UserCredentials == { Bearer(JWT(Some(u))) : u \in Users }

\* Requests of the two users on the protected routes, one at a time.
NextTwoUser ==
    \/ /\ nreq < MaxTwoUserReqs
       /\ \E c \in UserCredentials, r \in ProtectedRequests : Arrive("p1", c, r)
       /\ UNCHANGED <<ws, upgrades>>
    \/ Authenticate("p1") /\ UNCHANGED <<ws, upgrades>>
    \/ OtherBody("p1") /\ UNCHANGED <<ws, upgrades>>
    \/ VerifyStep("p1") /\ UNCHANGED <<ws, upgrades>>
    \/ RigStep("p1") /\ UNCHANGED <<ws, upgrades>>
    \/ SaveUpdate("p1") /\ UNCHANGED upgrades
    \/ GetStep("p1") /\ UNCHANGED <<ws, upgrades>>

TwoUserSpec == Init /\ [][NextTwoUser]_vars

\* ------------------------------------------------- datastore failures
\* The positions at which verify_transaction and create_mining_rig call the
\* datastore.
VerifyCalls == { "v_existing", "v_insert_verified", "v_read_state",
                 "v_update_state", "v_insert_ledger", "v_insert_not_found" }
RigCalls == { "r_read_balance", "r_insert_rig", "r_update_state",
              "r_insert_ledger" }

\* A datastore call raises (the datastore is unreachable or refuses the
\* statement) and has no effect; the handler's `except Exception` answers
\* 500.  What the handler wrote before stays written: there is no rollback.
DatastoreFails(p) ==
    /\ pc[p] \in VerifyCalls \cup RigCalls
    /\ Return(p, [ code |-> 500,
                   detail |-> IF pc[p] \in VerifyCalls
                              THEN "Verification failed"
                              ELSE "Failed to create mining rig" ])
    /\ UNCHANGED <<db, req, loc, nreq, now, completed>>

\* Deposits and rig purchases of one user, one at a time, over a datastore
\* whose calls may fail.
NextFail ==
    \/ /\ nreq < MaxFailReqs
       /\ \E u \in SpecUsers, tid \in SpecTxIds, b \in VerifyBodies :
             BeginVerify("p1", u, tid, b.payment_method, b.amount, b.currency)
       /\ UNCHANGED <<ws, upgrades>>
    \/ /\ nreq < MaxFailReqs
       /\ \E u \in SpecUsers, t \in SpecRigTypes : BeginRig("p1", u, t)
       /\ UNCHANGED <<ws, upgrades>>
    \/ VerifyStep("p1") /\ UNCHANGED <<ws, upgrades>>
    \/ RigStep("p1") /\ UNCHANGED <<ws, upgrades>>
    \/ DatastoreFails("p1") /\ UNCHANGED <<ws, upgrades>>

FailSpec == Init /\ [][NextFail]_vars

\* --------------------------------------------- payment-provider clients
\* The account a client is constructed with (Payeer.account,
\* FaucetPay.target_email) and another one.
OUR_ACCOUNT == "ours"
Accounts == {OUR_ACCOUNT, "theirs"}

\* A numeric field of a provider's answer: absent, a number (in cents) or
\* text that float() rejects.
ProviderSums ==
    { [given |-> FALSE, numeric |-> TRUE, value |-> 0],
      [given |-> TRUE, numeric |-> TRUE, value |-> 1000],
      [given |-> TRUE, numeric |-> FALSE, value |-> 0] }

\* The transaction a provider reports: data['info'] of Payeer,
\* data['transaction'] of FaucetPay.  kind "absent": the key is missing;
\* "empty": an empty object; "null": JSON null.
NoInfo(kind) ==
    [kind |-> kind, to |-> None, sum |-> CHOOSE x \in ProviderSums : ~ x.given,
     status |-> "pending"]
ProviderInfos ==
    { NoInfo("absent"), NoInfo("empty"), NoInfo("null") }
    \cup { [kind |-> "full", to |-> t, sum |-> x, status |-> st] :
             t \in {None} \cup {Some(a) : a \in Accounts},
             x \in ProviderSums, st \in {"success", "completed", "pending"} }

\* The decoded JSON object of an answer.  ok: Payeer's auth_error is absent
\* or 0, FaucetPay's success is true.  errors: the provider's error list
\* (message), which it sends without a transaction.
ProviderData ==
    { [ok |-> k, info |-> i, errors |-> e] :
        k \in BOOLEAN, i \in ProviderInfos,
        e \in {None, Some(<<>>), Some(<<"Transaction not found">>)} }

EmptyData == [ok |-> FALSE, info |-> NoInfo("absent"), errors |-> None]

\* What the HTTP call to the provider can come to: an exception of the
\* transport (timeout, connection error), or a response with a status and
\* a body that is not JSON, JSON that is not an object, or a JSON object.
ProviderOutcomes ==
    { [transport |-> t, status_code |-> 0, body |-> "none", data |-> EmptyData] :
        t \in {"timeout", "connect_error"} }
    \cup { [transport |-> "ok", status_code |-> c, body |-> "text", data |-> EmptyData] :
             c \in {200, 404, 500} }
    \cup { [transport |-> "ok", status_code |-> 200, body |-> "array", data |-> EmptyData] }
    \cup { [transport |-> "ok", status_code |-> 200, body |-> "object", data |-> d] :
             d \in { x \in ProviderData :
                       (~ IsNone(x.errors) /\ Len(Get(x.errors)) > 0)
                          => x.info.kind # "full" } }

\* A result of a client: a returned dict, or an exception that leaves the
\* method.
Raised(error) == [raised |-> TRUE, success |-> FALSE, transaction_found |-> FALSE,
                  error |-> error]
NotVerified(error) ==
    [raised |-> FALSE, success |-> FALSE, transaction_found |-> FALSE,
     error |-> error]

\* The body of the try block of both clients.  They differ in the request
\* they send, in the key that says the answer is good (auth_error == 0 /
\* success) and in the texts; the decisions are the same:
\*   client.post / client.get raises on a transport failure;
\*   status_code != 200 -> "HTTP error";
\*   response.json() raising JSONDecodeError -> "Invalid response";
\*   data.get on JSON that is not an object raises AttributeError;
\*   a good answer with a transaction to our account -> success, after
\*   float() of the amount, which raises ValueError on text;
\*   a transaction to another account -> "not sent to our account";
\*   anything else -> the provider's message or "Transaction not found".
\* Payeer tests `'info' in data and data['info']` before info.get('to');
\* FaucetPay calls data.get('transaction', {}).get('to_email'), which
\* raises AttributeError on null.
TryVerify(provider, account, transaction_id, o) ==
    IF o.transport # "ok" THEN Raised(o.transport)
    ELSE IF o.status_code # 200 THEN NotVerified("HTTP error")
    ELSE IF o.body = "text" THEN NotVerified("Invalid response")
    ELSE IF o.body = "array" THEN Raised("AttributeError")
    ELSE LET data == o.data
             info == data.info
             message == IF ~ IsNone(data.errors) /\ Len(Get(data.errors)) > 0
                        THEN Get(data.errors)[1]
                        ELSE "Transaction not found"
             found == [ raised |-> FALSE, success |-> TRUE,
                        transaction_found |-> TRUE,
                        transaction_id |-> transaction_id,
                        amount |-> info.sum.value,
                        status |-> IF provider = "payeer"
                                   THEN IF info.status = "success"
                                        THEN "completed" ELSE "pending"
                                   ELSE IF info.status = "completed"
                                        THEN "confirmed" ELSE "pending",
                        to |-> account ]
         IN  IF provider = "payeer"
             THEN IF data.ok /\ info.kind = "full"
                  THEN IF info.to = Some(account)
                       THEN IF info.sum.numeric THEN found
                            ELSE Raised("ValueError")
                       ELSE NotVerified("Transaction not sent to our account")
                  ELSE NotVerified(message)
             ELSE IF data.ok
                  THEN IF info.kind = "null" THEN Raised("AttributeError")
                       ELSE IF info.to = Some(account)
                            THEN IF info.sum.numeric THEN found
                                 ELSE Raised("ValueError")
                            ELSE NotVerified("Transaction not sent to our email")
                  ELSE NotVerified(message)

\* Payeer.verify_transaction / FaucetPay.verify_transaction: the try block
\* under `except Exception`, which returns a failure result.
ProviderVerifyMutNoCatch(provider, account, transaction_id, o) ==
    TryVerify(provider, account, transaction_id, o)
ProviderVerify(provider, account, transaction_id, o) ==
    LET r == TryVerify(provider, account, transaction_id, o)
    IN  IF r.raised THEN NotVerified(r.error) ELSE r

\* A client method is awaited.
BeginProvider(p, provider, transaction_id, o) ==
    /\ Free(p)
    /\ pc' = [pc EXCEPT ![p] = "p_call"]
    /\ req' = [req EXCEPT ![p] =
                 [ op |-> "provider", provider |-> provider,
                   transaction_id |-> transaction_id, outcome |-> o ]]
    /\ loc' = [loc EXCEPT ![p] = NoLocals]
    /\ resp' = [resp EXCEPT ![p] = NoResponse]
    /\ nreq' = nreq + 1
    /\ UNCHANGED <<db, now, completed>>

\* The HTTP call completes and the method returns (or raises).
ProviderReturn(p) ==
    /\ pc[p] = "p_call"
    /\ Return(p, ProviderVerify(req[p].provider, OUR_ACCOUNT,
                                req[p].transaction_id, req[p].outcome))
    /\ UNCHANGED <<db, req, loc, nreq, now, completed>>

NextProvider ==
    \/ /\ nreq < MaxProviderCalls
       /\ \E m \in PaymentMethod, o \in ProviderOutcomes :
             BeginProvider("p1", m, TX_VALID8, o)
       /\ UNCHANGED <<ws, upgrades>>
    \/ ProviderReturn("p1") /\ UNCHANGED <<ws, upgrades>>

ProviderSpec == Init /\ [][NextProvider]_vars

\* ------------------------------------------------------------ WebSocket
http == <<db, pc, req, loc, resp, nreq, now, completed>>

\* websocket_endpoint, manager.connect: the socket is accepted and added
\* to the set of the user id of its path.
WsConnect(w, user_id) ==
    /\ sockets[w].state = "new"
    /\ sockets' = [sockets EXCEPT ![w] =
                     [@ EXCEPT !.state = "open", !.user_id = user_id]]
    /\ active_connections' =
          [u \in DOMAIN active_connections \cup {user_id} |->
             IF u = user_id THEN Registered(u) \cup {w}
             ELSE active_connections[u]]
    /\ UNCHANGED http

\* while True: await websocket.receive_text() -- a text of the client is
\* received and dropped.  inbound counts the texts received.
WsReceive(w) ==
    /\ sockets[w].state = "open"
    /\ sockets[w].inbound < MaxInbound
    /\ sockets' = [sockets EXCEPT ![w] = [@ EXCEPT !.inbound = @ + 1]]
    /\ UNCHANGED <<http, active_connections>>

\* The client closes its end; the server has not yet noticed.
WsClientClose(w) ==
    /\ sockets[w].state = "open"
    /\ sockets' = [sockets EXCEPT ![w] = [@ EXCEPT !.state = "closed"]]
    /\ UNCHANGED <<http, active_connections>>

\* receive_text raises WebSocketDisconnect: manager.disconnect discards
\* the socket (and deletes a set left empty).
WsDisconnect(w) ==
    /\ sockets[w].state = "closed"
    /\ sockets' = [sockets EXCEPT ![w] = [@ EXCEPT !.state = "gone"]]
    /\ LET user_id == sockets[w].user_id
           keys == IF Registered(user_id) \ {w} = {}
                   THEN DOMAIN active_connections \ {user_id}
                   ELSE DOMAIN active_connections
       IN  active_connections' =
              [u \in keys |-> active_connections[u] \ {w}]
    /\ UNCHANGED http

WsSaveBodies ==
    { NoUpdate,
      [NoUpdate EXCEPT !.current_level = Some(0),
                       !.experience_points = Some(0 - 5),
                       !.main_balance = Some(0 - 1)],
      [NoUpdate EXCEPT !.current_coins = Some(10000)],
      [NoUpdate EXCEPT !.energy = Some(50)] }

\* One process: sockets opening, sending and closing, and POST /game/state
\* requests of either user, one at a time.
NextWs ==
    \/ /\ nreq < MaxWsSaves
       /\ \E u \in Users, body \in WsSaveBodies : BeginSave("p1", u, body)
       /\ UNCHANGED <<ws, upgrades>>
    \/ SaveUpdate("p1") /\ UNCHANGED upgrades
    \/ (\E w \in Sockets, u \in Users : WsConnect(w, u)) /\ UNCHANGED upgrades
    \/ (\E w \in Sockets : WsReceive(w)) /\ UNCHANGED upgrades
    \/ (\E w \in Sockets : WsClientClose(w)) /\ UNCHANGED upgrades
    \/ (\E w \in Sockets : WsDisconnect(w)) /\ UNCHANGED upgrades

WsSpec == Init /\ [][NextWs]_vars

\* ------------------------------------- the broadcast, await by await
\* SaveUpdate takes the broadcast as one step: no other coroutine runs
\* between its sends.  send_personal_message awaits each send_text, and
\* the event loop may run websocket_endpoint of any socket meanwhile.  The
\* two actions below are save_game_state with the broadcast split at its
\* awaits.

\* game_states.update(update_data); send_personal_message is entered: with
\* the user id in active_connections the loop runs over a copy of the set.
SaveWrite(p) ==
    /\ pc[p] = "s_update"
    /\ LET u == req[p].user
           body == req[p].body
       IN  IF body = NoUpdate
           THEN /\ Return(p, [code |-> 200, message |-> "No changes made"])
                /\ UNCHANGED <<game_states, loc>>
           ELSE /\ game_states' = [game_states EXCEPT ![u] =
                      [i \in 1..Len(@) |-> ApplyUpdate(@[i], body)]]
                /\ IF Len(game_states[u]) = 0
                   THEN /\ Return(p, [code |-> 500,
                                      detail |-> "Failed to save game state"])
                        /\ UNCHANGED loc
                   ELSE LET data == ApplyUpdate(game_states[u][1], body)
                        IN  /\ loc' = [loc EXCEPT ![p] =
                                  [ message |-> [ type |-> "game_state_updated",
                                                  data |-> data ],
                                    pending |-> Registered(u) ]]
                            /\ IF Registered(u) = {}
                               THEN Return(p, [code |-> 200, data |-> data])
                               ELSE /\ pc' = [pc EXCEPT ![p] = "s_send"]
                                    /\ UNCHANGED resp
    /\ UNCHANGED <<mining_rigs, transactions, transaction_verifications,
                   req, nreq, now, completed, ws>>

\* One round of the loop: await websocket.send_text(message).  The send to
\* a socket whose client has gone raises, and the except clause runs
\* self.active_connections[user_id].discard(websocket): a KeyError when
\* the key has been deleted meanwhile, which leaves send_personal_message
\* and is answered 500 by save_game_state's except clause.  After the last
\* round the saved state is returned.
SendText(p) ==
    /\ pc[p] = "s_send"
    /\ \E w \in loc[p].pending :
          LET u == req[p].user
              pending == loc[p].pending \ {w}
          IN  /\ loc' = [loc EXCEPT ![p] = [@ EXCEPT !.pending = pending]]
              /\ IF sockets[w].state = "open"
                 THEN /\ sockets' = [sockets EXCEPT ![w] =
                            [@ EXCEPT !.outbox = Append(@, loc[p].message)]]
                      /\ UNCHANGED active_connections
                      /\ IF pending = {}
                         THEN Return(p, [ code |-> 200,
                                          data |-> loc[p].message.data ])
                         ELSE UNCHANGED <<pc, resp>>
                 ELSE /\ sockets' = [sockets EXCEPT ![w] =
                            [@ EXCEPT !.failed = TRUE]]
                      /\ IF u \in DOMAIN active_connections
                         THEN /\ active_connections' =
                                    [active_connections EXCEPT ![u] = @ \ {w}]
                              /\ IF pending = {}
                                 THEN Return(p, [ code |-> 200,
                                                  data |-> loc[p].message.data ])
                                 ELSE UNCHANGED <<pc, resp>>
                         ELSE /\ UNCHANGED active_connections
                              /\ Return(p, [ code |-> 500,
                                    detail |-> "Failed to save game state" ])
    /\ UNCHANGED <<db, req, nreq, now, completed>>

\* The bodies of the saves of RegistrySpec.
RegistrySaveBodies ==
    { [NoUpdate EXCEPT !.current_coins = Some(10000)] }

\* Sockets of either user connecting and closing while POST /game/state
\* requests of one user broadcast.
NextRegistry ==
    \/ /\ nreq < MaxRegistrySaves
       /\ \E u \in SpecUsers, body \in RegistrySaveBodies : BeginSave("p1", u, body)
       /\ UNCHANGED <<ws, upgrades>>
    \/ SaveWrite("p1") /\ UNCHANGED upgrades
    \/ SendText("p1") /\ UNCHANGED upgrades
    \/ (\E w \in Sockets, u \in Users : WsConnect(w, u)) /\ UNCHANGED upgrades
    \/ (\E w \in Sockets : WsClientClose(w)) /\ UNCHANGED upgrades
    \/ (\E w \in Sockets : WsDisconnect(w)) /\ UNCHANGED upgrades

RegistrySpec == Init /\ [][NextRegistry]_vars

\* --------------------------------------------- POST /api/game/click
\* The click route belongs to the earlier variant of the backend, whose
\* handlers are not in backend/server.py (backend_test.py calls them).  It
\* is modelled from the specification's sections 4.1 (reconciliation) and
\* 4.2 (click action).

\* base_click_yield = 0.1 coin per click and unit of click power, in cents.
BASE_CLICK_YIELD == 10

\* A PlayerProgression record: energy_regen_rate in 1/10 unit per minute,
\* auto_mining_rate in cents per minute, current_balance in cents,
\* last_update_at in seconds.
PlayerProgression(energy, click_power, auto_mining_rate) ==
    [ energy |-> energy, max_energy |-> INITIAL_ENERGY,
      energy_regen_rate |-> 10, click_power |-> click_power,
      auto_mining_rate |-> auto_mining_rate, total_clicks |-> 0,
      current_balance |-> 0, last_update_at |-> 0 ]

\* 4.1: elapsed time since last_update_at, clamped to 24 hours;
\* energy = min(max_energy, energy + floor(elapsed_minutes * regen rate));
\* balance += elapsed_minutes * auto_mining_rate if positive;
\* last_update_at = now iff any accrual occurred.
Reconcile(row, t) ==
    LET elapsed == Min(t - row.last_update_at,
                       MAX_OFFLINE_HOURS * SECONDS_PER_HOUR)
        energy == Min(row.max_energy,
                      row.energy + (elapsed * row.energy_regen_rate) \div 600)
        accrued == (elapsed * row.auto_mining_rate) \div 60
    IN  [ row EXCEPT
            !.energy = energy,
            !.current_balance = IF accrued > 0 THEN @ + accrued ELSE @,
            !.last_update_at = IF energy > row.energy \/ accrued > 0
                               THEN t ELSE @ ]

\* A click request arrives.
BeginClick(p, u, clicks) ==
    /\ Free(p)
    /\ pc' = [pc EXCEPT ![p] = "c_apply"]
    /\ req' = [req EXCEPT ![p] = [ op |-> "click", user |-> u, clicks |-> clicks ]]
    /\ loc' = [loc EXCEPT ![p] = NoLocals]
    /\ resp' = [resp EXCEPT ![p] = NoResponse]
    /\ nreq' = nreq + 1
    /\ UNCHANGED <<db, now, completed>>

\* 4.2: clicks must be positive; the record is reconciled; with reconciled
\* energy >= clicks: energy -= clicks, total_clicks += clicks,
\* balance += clicks * click_power * base_click_yield; else
\* InsufficientEnergy, a client error.  Reconcile-then-apply is one step.
ClickApplyMutIgnorePower(p) ==
    /\ pc[p] = "c_apply"
    /\ LET u == req[p].user
           clicks == req[p].clicks
           row == Reconcile(game_states[u][1], now)
           earned == clicks * BASE_CLICK_YIELD
       IN  IF clicks <= 0
           THEN /\ Return(p, [code |-> 422, detail |-> "clicks must be positive"])
                /\ UNCHANGED game_states
           ELSE IF row.energy < clicks
           THEN /\ Return(p, [code |-> 400, detail |-> "Insufficient energy"])
                /\ game_states' = [game_states EXCEPT ![u] = <<row>>]
           ELSE /\ game_states' = [game_states EXCEPT ![u] =
                      << [ row EXCEPT !.energy = @ - clicks,
                                      !.total_clicks = @ + clicks,
                                      !.current_balance = @ + earned ] >>]
                /\ Return(p, [ code |-> 200, tokens_earned |-> earned,
                               energy_remaining |-> row.energy - clicks,
                               total_clicks |-> row.total_clicks + clicks ])
    /\ UNCHANGED <<mining_rigs, transactions, transaction_verifications,
                   req, loc, nreq, now, completed>>
ClickApplyMutPartial(p) ==
    /\ pc[p] = "c_apply"
    /\ LET u == req[p].user
           clicks == req[p].clicks
           row == Reconcile(game_states[u][1], now)
           done == Min(clicks, row.energy)
           earned == done * row.click_power * BASE_CLICK_YIELD
       IN  IF clicks <= 0
           THEN /\ Return(p, [code |-> 422, detail |-> "clicks must be positive"])
                /\ UNCHANGED game_states
           ELSE /\ game_states' = [game_states EXCEPT ![u] =
                      << [ row EXCEPT !.energy = @ - done,
                                      !.total_clicks = @ + done,
                                      !.current_balance = @ + earned ] >>]
                /\ IF row.energy < clicks
                   THEN Return(p, [code |-> 400, detail |-> "Insufficient energy"])
                   ELSE Return(p, [ code |-> 200, tokens_earned |-> earned,
                                    energy_remaining |-> row.energy - clicks,
                                    total_clicks |-> row.total_clicks + clicks ])
    /\ UNCHANGED <<mining_rigs, transactions, transaction_verifications,
                   req, loc, nreq, now, completed>>
ClickApply(p) ==
    /\ pc[p] = "c_apply"
    /\ LET u == req[p].user
           clicks == req[p].clicks
           row == Reconcile(game_states[u][1], now)
           earned == clicks * row.click_power * BASE_CLICK_YIELD
       IN  IF clicks <= 0
           THEN /\ Return(p, [code |-> 422, detail |-> "clicks must be positive"])
                /\ UNCHANGED game_states
           ELSE IF row.energy < clicks
           THEN /\ Return(p, [code |-> 400, detail |-> "Insufficient energy"])
                /\ game_states' = [game_states EXCEPT ![u] = <<row>>]
           ELSE /\ game_states' = [game_states EXCEPT ![u] =
                      << [ row EXCEPT !.energy = @ - clicks,
                                      !.total_clicks = @ + clicks,
                                      !.current_balance = @ + earned ] >>]
                /\ Return(p, [ code |-> 200, tokens_earned |-> earned,
                               energy_remaining |-> row.energy - clicks,
                               total_clicks |-> row.total_clicks + clicks ])
    /\ UNCHANGED <<mining_rigs, transactions, transaction_verifications,
                   req, loc, nreq, now, completed>>

\* The numbers of clicks of the requests.
ClickCounts == {0 - 1, 0, 1, 5, 100, 101}

\* One user's progression record, with full, low or no energy.
ClickInit ==
    /\ \E energy \in {0, 3, INITIAL_ENERGY}, click_power \in {1, 2},
          auto_mining_rate \in {0, 60} :
          game_states =
              [u \in Users |->
                 IF u \in SpecUsers
                 THEN <<PlayerProgression(energy, click_power, auto_mining_rate)>>
                 ELSE <<>>]
    /\ mining_rigs = <<>>
    /\ transactions = <<>>
    /\ transaction_verifications = <<>>
    /\ pc = [p \in Procs |-> "idle"]
    /\ req = [p \in Procs |-> NoRequest]
    /\ loc = [p \in Procs |-> NoLocals]
    /\ resp = [p \in Procs |-> NoResponse]
    /\ nreq = 0
    /\ now = 0
    /\ completed = {}
    /\ active_connections = NoConnections
    /\ sockets = [w \in Sockets |-> NewSocket]
    /\ upgrades = NoUpgrades

\* Click requests of one user, one at a time, with time passing in between.
NextClick ==
    \/ /\ nreq < MaxClickReqs
       /\ \E u \in SpecUsers, clicks \in ClickCounts : BeginClick("p1", u, clicks)
       /\ UNCHANGED <<ws, upgrades>>
    \/ ClickApply("p1") /\ UNCHANGED <<ws, upgrades>>
    \/ (\E t \in ClockValues : Tick(t)) /\ UNCHANGED <<ws, upgrades>>

ClickSpec == ClickInit /\ [][NextClick]_vars

\* --------------------------------- POST /api/game/upgrades/{type}/buy
\* The purchase route belongs to the earlier variant of the backend, like
\* the click route; it is modelled from the specification's section 4.3.
\* public.upgrades (supabase_config.py) holds one row per user and type.

\* The catalogue of upgrades: base_price in cents, the multiplier as the
\* fraction num/den, max_level and effect_value (energy_regen_rate in 1/10
\* unit per minute, auto_mining_rate in cents per minute).  The prices are
\* whole cents at every level below max_level.
UpgradeCatalogue ==
    [ ENERGY_REGEN |-> [ base_price |-> 5000, num |-> 2, den |-> 1,
                         max_level |-> 2, effect_value |-> 5 ],
      CLICK_POWER  |-> [ base_price |-> 1600, num |-> 3, den |-> 2,
                         max_level |-> 3, effect_value |-> 1 ],
      AUTO_MINING  |-> [ base_price |-> 10000, num |-> 2, den |-> 1,
                         max_level |-> 1, effect_value |-> 60 ],
      MAX_ENERGY   |-> [ base_price |-> 2000, num |-> 3, den |-> 2,
                         max_level |-> 2, effect_value |-> 20 ] ]

\* b to the power n.
RECURSIVE Pow(_, _)
Pow(b, n) == IF n = 0 THEN 1 ELSE b * Pow(b, n - 1)

\* price = base_price * multiplier^level.
UpgradePrice(t, level) ==
    LET u == UpgradeCatalogue[t]
    IN  (u.base_price * Pow(u.num, level)) \div Pow(u.den, level)

\* The type-specific effect of one purchase on the reconciled record.
ApplyEffect(row, t) ==
    LET v == UpgradeCatalogue[t].effect_value
    IN  CASE t = "ENERGY_REGEN" ->
               [ row EXCEPT !.energy_regen_rate = @ + v, !.max_energy = @ + 10 ]
          [] t = "CLICK_POWER" ->
               [ row EXCEPT !.click_power = @ + v ]
          [] t = "AUTO_MINING" ->
               [ row EXCEPT !.auto_mining_rate = @ + v ]
          [] t = "MAX_ENERGY" ->
               [ row EXCEPT !.max_energy = @ + v,
                            !.energy = Min(row.max_energy + v, @ + v) ]

\* A purchase request arrives.
BeginUpgrade(p, u, t) ==
    /\ Free(p)
    /\ pc' = [pc EXCEPT ![p] = "u_apply"]
    /\ req' = [req EXCEPT ![p] = [ op |-> "upgrade", user |-> u, upgrade_type |-> t ]]
    /\ loc' = [loc EXCEPT ![p] = NoLocals]
    /\ resp' = [resp EXCEPT ![p] = NoResponse]
    /\ nreq' = nreq + 1
    /\ UNCHANGED <<db, now, completed, upgrades>>

\* 4.3: the record is reconciled; MaxLevelReached if level >= max_level;
\* InsufficientBalance if balance < price; otherwise the price is debited,
\* the level incremented and the effect applied once.  A failure changes
\* nothing beyond the reconciliation.
UpgradeApplyMutNoMaxCheck(p) ==
    /\ pc[p] = "u_apply"
    /\ LET u == req[p].user
           t == req[p].upgrade_type
           row == Reconcile(game_states[u][1], now)
           level == upgrades[u][t]
           price == UpgradePrice(t, level)
       IN  IF row.current_balance < price
           THEN /\ Return(p, [code |-> 400, detail |-> "InsufficientBalance"])
                /\ game_states' = [game_states EXCEPT ![u] = <<row>>]
                /\ UNCHANGED upgrades
           ELSE /\ game_states' = [game_states EXCEPT ![u] =
                      << ApplyEffect([row EXCEPT !.current_balance = @ - price], t) >>]
                /\ upgrades' = [upgrades EXCEPT ![u][t] = level + 1]
                /\ Return(p, [ code |-> 200, new_level |-> level + 1,
                               price |-> price ])
    /\ UNCHANGED <<mining_rigs, transactions, transaction_verifications,
                   req, loc, nreq, now, completed>>
UpgradeApply(p) ==
    /\ pc[p] = "u_apply"
    /\ LET u == req[p].user
           t == req[p].upgrade_type
           row == Reconcile(game_states[u][1], now)
           level == upgrades[u][t]
           price == UpgradePrice(t, level)
       IN  IF level >= UpgradeCatalogue[t].max_level
           THEN /\ Return(p, [code |-> 400, detail |-> "MaxLevelReached"])
                /\ game_states' = [game_states EXCEPT ![u] = <<row>>]
                /\ UNCHANGED upgrades
           ELSE IF row.current_balance < price
           THEN /\ Return(p, [code |-> 400, detail |-> "InsufficientBalance"])
                /\ game_states' = [game_states EXCEPT ![u] = <<row>>]
                /\ UNCHANGED upgrades
           ELSE /\ game_states' = [game_states EXCEPT ![u] =
                      << ApplyEffect([row EXCEPT !.current_balance = @ - price], t) >>]
                /\ upgrades' = [upgrades EXCEPT ![u][t] = level + 1]
                /\ Return(p, [ code |-> 200, new_level |-> level + 1,
                               price |-> price ])
    /\ UNCHANGED <<mining_rigs, transactions, transaction_verifications,
                   req, loc, nreq, now, completed>>

\* The balances a player starts the purchases with, in cents.
UpgradeBalances == {0, 5000, 100000}

\* A player with a progression record and a balance, and no upgrade yet.
UpgradeInit ==
    /\ \E balance \in UpgradeBalances :
          game_states =
              [u \in Users |->
                 IF u \in SpecUsers
                 THEN << [ PlayerProgression(INITIAL_ENERGY, 1, 0)
                             EXCEPT !.current_balance = balance ] >>
                 ELSE <<>>]
    /\ mining_rigs = <<>>
    /\ transactions = <<>>
    /\ transaction_verifications = <<>>
    /\ pc = [p \in Procs |-> "idle"]
    /\ req = [p \in Procs |-> NoRequest]
    /\ loc = [p \in Procs |-> NoLocals]
    /\ resp = [p \in Procs |-> NoResponse]
    /\ nreq = 0
    /\ now = 0
    /\ completed = {}
    /\ active_connections = NoConnections
    /\ sockets = [w \in Sockets |-> NewSocket]
    /\ upgrades = NoUpgrades

\* Purchases of one user, one at a time, with time passing in between.
NextUpgrade ==
    \/ /\ nreq < MaxUpgradeReqs
       /\ \E u \in SpecUsers, t \in UpgradeType : BeginUpgrade("p1", u, t)
       /\ UNCHANGED ws
    \/ UpgradeApply("p1") /\ UNCHANGED ws
    \/ (\E t \in ClockValues : Tick(t)) /\ UNCHANGED <<ws, upgrades>>

UpgradeSpec == UpgradeInit /\ [][NextUpgrade]_vars

\* ------------------------------------------------------------ properties
IsVerify(p) == req[p].op = "verify"
IsRig(p) == req[p].op = "rig"
Row(u) == game_states[u][1]
HasRow(u) == Len(game_states[u]) > 0

\* The stored verification records of a user and transaction id, as a set.
StoredFor(u, tid) ==
    { transaction_verifications[i] : i \in
        { j \in 1..Len(transaction_verifications) :
            /\ transaction_verifications[j].user_id = u
            /\ transaction_verifications[j].transaction_id = tid } }

\* C1: once a verify-transaction request of a user for a transaction id has
\* returned, every later request of that user with that id returns the
\* stored status, amount and bonus_amount with the message 'Transaction
\* already processed', and its handler writes nothing: no verification
\* record, no ledger entry, no balance change.
C1_Idempotent ==
    [][ \A p \in Procs :
          ( /\ pc[p] = "v_existing"
            /\ pc'[p] # "v_existing"
            /\ <<req[p].user, req[p].transaction_id>> \in completed )
          => /\ pc'[p] = "done"
             /\ resp'[p].code = 200
             /\ resp'[p].message = "Transaction already processed"
             /\ \E v \in StoredFor(req[p].user, req[p].transaction_id) :
                   /\ resp'[p].status = v.status
                   /\ resp'[p].verified = (v.status = "verified")
                   /\ resp'[p].amount = v.amount
                   /\ resp'[p].bonus_amount = v.bonus_amount
             /\ transaction_verifications' = transaction_verifications
             /\ transactions' = transactions
             /\ game_states' = game_states
      ]_vars

\* A repeated request that differs from the stored record in amount,
\* currency and payment method has been answered from the record.
C1_Witness ==
    \E p \in Procs :
        /\ pc[p] = "done"
        /\ IsVerify(p)
        /\ resp[p].message = "Transaction already processed"
        /\ \E v \in StoredFor(req[p].user, req[p].transaction_id) :
              /\ v.status = "verified"
              /\ resp[p].amount = v.amount
              /\ v.amount # EffectiveAmount(req[p].amount, req[p].payment_method)
              /\ v.currency # req[p].currency
              /\ v.payment_method # req[p].payment_method

\* The deposit ledger entries of a user and transaction id.
DepositsFor(u, tid) ==
    { i \in 1..Len(transactions) :
        /\ transactions[i].user_id = u
        /\ transactions[i].transaction_type = "deposit_bonus"
        /\ transactions[i].description = tid }

\* C2: however verify-transaction requests of one user with one acceptable
\* transaction id interleave, at most one verification record is stored for
\* the pair and at most one credit is made for it.
C2_AtMostOnce ==
    \A u \in Users, tid \in TxIds :
        /\ Cardinality({ i \in 1..Len(transaction_verifications) :
              /\ transaction_verifications[i].user_id = u
              /\ transaction_verifications[i].transaction_id = tid }) <= 1
        /\ Cardinality(DepositsFor(u, tid)) <= 1

\* C3: an accepted request that submits amount A is answered with amount A
\* and bonus_amount round(A * 0.17, 2), and it raises current_coins by
\* A + bonus and main_balance plus bonus_balance by A + bonus in total.
C3_BonusAccuracy ==
    \A p \in Procs :
        ( /\ pc[p] = "done"
          /\ IsVerify(p)
          /\ resp[p].message = "Transaction verified"
          /\ ~ IsNone(req[p].amount)
          /\ loc[p].has_row )
        => LET A == Get(req[p].amount)
               bonus == RoundHalfEven(A * 17, 100)
           IN  /\ resp[p].amount = A
               /\ resp[p].bonus_amount = bonus
               /\ loc[p].new_balance - loc[p].current_balance = A + bonus
               /\ (loc[p].new_main - loc[p].current_main)
                    + (loc[p].new_bonus - loc[p].current_bonus) = A + bonus

\* C4: a request whose transaction id is rejected returns verified=false,
\* status 'not_found' and bonus_amount 0, stores exactly one verification
\* record with status not_found, and writes neither a ledger entry nor a
\* balance; an unseen id that starts with 'INVALID' or is shorter than 8
\* characters is rejected.
C4_Rejected ==
    [][ \A p \in Procs :
          /\ ( /\ pc[p] = "v_existing"
               /\ pc'[p] # "v_existing"
               /\ StoredFor(req[p].user, req[p].transaction_id) = {}
               /\ \/ Len(req[p].transaction_id) < 8
                  \/ StartsWith(req[p].transaction_id, <<"I","N","V","A","L","I","D">>) )
             => /\ pc'[p] = "v_insert_not_found"
                /\ transaction_verifications' = transaction_verifications
                /\ transactions' = transactions
                /\ game_states' = game_states
          /\ ( /\ pc[p] = "v_insert_not_found"
               /\ pc'[p] # "v_insert_not_found" )
             => /\ pc'[p] = "done"
                /\ resp'[p].code = 200
                /\ resp'[p].verified = FALSE
                /\ resp'[p].status = "not_found"
                /\ resp'[p].bonus_amount = 0
                /\ Len(transaction_verifications') = Len(transaction_verifications) + 1
                /\ SubSeq(transaction_verifications', 1, Len(transaction_verifications))
                      = transaction_verifications
                /\ LET v == transaction_verifications'[Len(transaction_verifications')]
                   IN  /\ v.user_id = req[p].user
                       /\ v.transaction_id = req[p].transaction_id
                       /\ v.status = "not_found"
                /\ transactions' = transactions
                /\ game_states' = game_states
      ]_vars

\* A request with an id starting with 'INVALID' and one with a short id have
\* both been rejected, the user having a balance.
C4_Witness ==
    /\ \E p \in Procs :
          /\ pc[p] = "done"
          /\ IsVerify(p)
          /\ resp[p].status = "not_found"
          /\ resp[p].message = "Transaction not found or invalid"
          /\ req[p].transaction_id = TX_SHORT7
          /\ HasRow(req[p].user)
    /\ \E i \in 1..Len(transaction_verifications) :
          /\ transaction_verifications[i].transaction_id = TX_INVALID
          /\ transaction_verifications[i].status = "not_found"

\* A request answered by verification, not from a stored record.
FreshlyAnswered(p) ==
    /\ pc[p] = "done"
    /\ IsVerify(p)
    /\ resp[p].code = 200
    /\ resp[p].message # "Transaction already processed"

\* C5 as stated: an unseen transaction id is accepted exactly when its
\* length is at least 8 and it does not start with the literal "INVALID".
C5_LiteralMarker ==
    \A p \in Procs :
        FreshlyAnswered(p)
        => ( resp[p].verified
             <=> ( /\ Len(req[p].transaction_id) >= 8
                   /\ ~ StartsWith(req[p].transaction_id,
                                   <<"I","N","V","A","L","I","D">>) ) )

\* C5 as amended: an unseen transaction id is accepted exactly when its
\* length is at least 8 and its upper-cased form does not start with
\* "INVALID"; payment method, amount and currency play no part.
C5_Acceptance ==
    \A p \in Procs :
        FreshlyAnswered(p)
        => ( resp[p].verified
             <=> ( /\ Len(req[p].transaction_id) >= 8
                   /\ ~ StartsWith(Upper(req[p].transaction_id),
                                   <<"I","N","V","A","L","I","D">>) ) )

\* The id of exactly 8 characters has been accepted and the lower-case
\* 'invalid...' id has been rejected.
C5_Witness ==
    /\ \E p \in Procs :
          /\ FreshlyAnswered(p)
          /\ req[p].transaction_id = TX_invalid
          /\ ~ resp[p].verified
    /\ \E i \in 1..Len(transaction_verifications) :
          /\ transaction_verifications[i].transaction_id = TX_VALID8
          /\ transaction_verifications[i].status = "verified"

\* C6: current_coins and main_balance of every stored game state are
\* non-negative in every reachable state.
C6_BalanceNonNegative ==
    \A u \in Users :
        HasRow(u) => /\ Row(u).current_coins >= 0
                     /\ Row(u).main_balance >= 0

C8_InsufficientBalance ==
    [][ \A p \in Procs :
          ( pc[p] = "r_read_balance" /\ pc'[p] # "r_read_balance" )
          => LET u == req[p].user
                 cost == rig_configs[req[p].rig_type].cost
             IN  IF ~ HasRow(u) \/ Row(u).current_coins < cost
                 THEN /\ pc'[p] = "done"
                      /\ resp'[p] = [code |-> 400, detail |-> "Insufficient balance"]
                      /\ mining_rigs' = mining_rigs
                      /\ game_states' = game_states
                      /\ transactions' = transactions
                 ELSE /\ pc'[p] = "r_insert_rig"
                      /\ resp'[p].code # 400
      ]_vars

\* A purchase has been refused for a balance below the cost, and another has
\* gone through with current_coins equal to the cost.
C8_Witness ==
    /\ \E p \in Procs :
          /\ pc[p] = "done"
          /\ IsRig(p)
          /\ resp[p].code = 400
          /\ HasRow(req[p].user)
          /\ Row(req[p].user).current_coins < rig_configs[req[p].rig_type].cost
    /\ \E i \in 1..Len(transactions) :
          /\ transactions[i].transaction_type = "purchase"
          /\ transactions[i].balance_after = 0

\* A request that has written the balance and not yet returned.
PostWrite(p) == pc[p] \in {"r_insert_ledger", "v_insert_ledger"} /\ loc[p].has_row

\* Two requests of one user in flight together, both past their balance
\* write, that read the same balance.
Raced(p, q) ==
    /\ p # q
    /\ PostWrite(p)
    /\ PostWrite(q)
    /\ req[p].user = req[q].user
    /\ loc[p].current_balance = loc[q].current_balance

\* C9: when two concurrent balance-mutating requests of one user have read
\* the same balance and both have written, the stored balance is the stale
\* balance plus one of the two changes and not plus both: one update is lost.
C9_LostUpdate ==
    \A p, q \in Procs :
        Raced(p, q)
        => LET coins == Row(req[p].user).current_coins
               b == loc[p].current_balance
           IN  /\ coins \in {b + loc[p].total_credit, b + loc[q].total_credit}
               /\ coins # b + loc[p].total_credit + loc[q].total_credit

\* Two rig purchases raced: the user owns two rigs and paid for one.
C9_Witness ==
    \E p, q \in Procs :
        /\ Raced(p, q)
        /\ IsRig(p)
        /\ IsRig(q)
        /\ Row(req[p].user).current_coins
              > loc[p].current_balance + loc[p].total_credit + loc[q].total_credit
        /\ Cardinality({ i \in 1..Len(mining_rigs) :
                            mining_rigs[i].user_id = req[p].user }) >= 2

\* C10: 0 <= energy <= max_energy in every stored game state.
C10_EnergyRange ==
    \A u \in Users :
        HasRow(u) => /\ 0 <= Row(u).energy
                     /\ Row(u).energy <= Row(u).max_energy

\* ------------------------------------------- properties: offline rewards
IsGet(p) == req[p].op = "get"
Anchor(u) == Row(u).mining_session_start_at

\* The purchase prices of a user's rigs bought through the API, summed.
RigSpend(u) ==
    LET S[i \in 0..Len(transactions)] ==
            IF i = 0 THEN 0
            ELSE S[i-1] + (IF /\ transactions[i].user_id = u
                              /\ transactions[i].transaction_type = "purchase"
                           THEN 0 - transactions[i].amount ELSE 0)
    IN  S[Len(transactions)]

\* The reward of one settlement of request p: positive exactly when the
\* handler goes on to credit it.
SettledReward(p) == IF pc[p] = "g_credit" THEN loc[p].offline_rewards ELSE 0

\* C11: a GET /game/state of a user with active rigs, issued when the time
\* since the previous settlement (since registration when there was none)
\* is worth a positive reward, settles that reward, total active hashrate *
\* min(elapsed hours, 24) * 0.1, and the handler credits it to current_coins
\* and to main_balance and reports it as offline_rewards.
C11_OfflineCredit ==
    [][ \A p \in Procs :
          LET u == req[p].user
              since == IF IsNone(Anchor(u)) THEN 0 ELSE Get(Anchor(u))
              expected == OfflineRewards(u, since)
          IN  /\ ( /\ pc[p] = "g_settle"
                   /\ pc'[p] # "g_settle"
                   /\ TotalHashrate(u) > 0
                   /\ now > since
                   /\ expected > 0 )
                 => /\ pc'[p] = "g_credit"
                    /\ loc'[p].offline_rewards = expected
              /\ ( pc[p] = "g_credit" /\ pc'[p] = "done" )
                 => /\ Row(u)'.current_coins
                          = Row(u).current_coins + loc[p].offline_rewards
                    /\ Row(u)'.main_balance
                          = Row(u).main_balance + loc[p].offline_rewards
                    /\ resp'[p].offline_rewards = loc[p].offline_rewards
      ]_vars

\* C12: the reward of one settlement never exceeds total active hashrate *
\* 24 * 0.1 and equals it whenever 24 hours or more have passed since the
\* anchor.
C12_Clamp ==
    [][ \A p \in Procs :
          ( pc[p] = "g_settle" /\ pc'[p] # "g_settle" )
          => LET u == req[p].user
                 cap == RoundHalfUp(TotalHashrate(u) * MAX_OFFLINE_HOURS * 100,
                                    1000)
             IN  /\ SettledReward(p)' <= cap
                 /\ ( /\ ~ IsNone(Anchor(u))
                      /\ now - Get(Anchor(u))
                            >= MAX_OFFLINE_HOURS * SECONDS_PER_HOUR )
                    => SettledReward(p)' = cap
      ]_vars

\* A settlement 50 hours after the start is paid the positive 24-hour reward.
C12_Witness ==
    /\ pc["p1"] = "g_credit"
    /\ now = 180000
    /\ loc["p1"].offline_rewards > 0
    /\ loc["p1"].offline_rewards
          = RoundHalfUp(TotalHashrate("u1") * MAX_OFFLINE_HOURS * 100, 1000)

\* C13: a settlement moves the anchor to now if and only if it yields a
\* positive reward: with zero reward the anchor is left as it was.
C13_AnchorIffAccrual ==
    [][ \A p \in Procs :
          ( pc[p] = "g_settle" /\ pc'[p] # "g_settle" )
          => LET u == req[p].user
             IN  /\ SettledReward(p)' > 0 => Anchor(u)' = Some(now)
                 /\ SettledReward(p)' = 0 => Anchor(u)' = Anchor(u)
      ]_vars

\* C14: for a fixed now reconciliation credits at most once.  Every
\* settlement of a row with an anchor leaves the anchor at now, and a
\* settlement that finds the anchor at now (no time has passed since the
\* previous one) yields zero reward, reports none and leaves the row as it
\* is.
C14_IdempotentSettlement ==
    [][ \A p \in Procs :
          ( pc[p] = "g_settle" /\ pc'[p] # "g_settle" )
          => LET u == req[p].user
             IN  /\ Anchor(u)' \in {None, Some(now)}
                 /\ Anchor(u) = Some(now)
                    => /\ pc'[p] = "done"
                       /\ "offline_rewards" \notin DOMAIN resp'[p]
                       /\ game_states' = game_states
      ]_vars

\* A GET /game/state has been paid a reward and a second one, at the same
\* instant, has returned without any.
C14_Witness ==
    /\ pc["p1"] = "done"
    /\ IsGet("p1")
    /\ "offline_rewards" \notin DOMAIN resp["p1"]
    /\ now > 0
    /\ Anchor("u1") = Some(now)
    /\ TotalHashrate("u1") > 0
    /\ Row("u1").current_coins + RigSpend("u1") > INITIAL_COINS

\* ------------------------------------------- properties: authentication
\* C15: a request on a protected route that carries no bearer credential is
\* answered with a client error (4xx) by the step that resolves its
\* credentials: no handler call is made for it and no table changes.
C15_Unauthenticated ==
    [][ \A p \in Procs :
          ( pc[p] = "auth" /\ req[p].credentials = NoCredential )
          => /\ pc'[p] = "done"
             /\ resp'[p].code \in 400..499
             /\ db' = db
             /\ loc' = loc
      ]_vars

\* A verify-transaction request without credentials has been refused with 403.
C15_Witness ==
    /\ pc["p1"] = "done"
    /\ req["p1"].op = "auth"
    /\ req["p1"].credentials = NoCredential
    /\ req["p1"].request.op = "verify"
    /\ resp["p1"].code = 403

\* C16: a request whose token names a user id without a profile is answered
\* with 404, not with a server error.
C16_ProfileNotFound ==
    [][ \A p \in Procs :
          ( /\ pc[p] = "auth"
            /\ req[p].credentials.scheme = "bearer"
            /\ req[p].credentials.credentials.jwt
            /\ ~ IsNone(req[p].credentials.credentials.sub)
            /\ Get(req[p].credentials.credentials.sub) \notin Users )
          => /\ pc'[p] = "done"
             /\ resp'[p].code = 404
      ]_vars

\* ------------------------------------------ properties: provider clients
\* The provider reports a transaction addressed to the configured account.
AddressedToUs(o) ==
    /\ o.transport = "ok"
    /\ o.status_code = 200
    /\ o.body = "object"
    /\ o.data.ok
    /\ o.data.info.kind = "full"
    /\ o.data.info.to = Some(OUR_ACCOUNT)

\* C17: a provider client never raises; whenever the call fails (transport
\* error, non-200 status, undecodable body, provider-reported error, or a
\* transaction not addressed to the configured account) the result has
\* success = false and transaction_found = false, and success = true is
\* returned only for a reported transaction addressed to the account.
C17_ProviderNeverRaises ==
    \A p \in Procs :
        ( pc[p] = "done" /\ req[p].op = "provider" )
        => /\ ~ resp[p].raised
           /\ ~ AddressedToUs(req[p].outcome)
              => (~ resp[p].success /\ ~ resp[p].transaction_found)
           /\ resp[p].success => AddressedToUs(req[p].outcome)

\* A timeout has been answered with a failure result, not an exception.
C17_Witness ==
    /\ pc["p1"] = "done"
    /\ req["p1"].op = "provider"
    /\ req["p1"].outcome.transport = "timeout"
    /\ ~ resp["p1"].raised
    /\ ~ resp["p1"].success
    /\ ~ resp["p1"].transaction_found

\* ------------------------------------------------ properties: WebSocket
\* A POST /game/state of request slot p has just saved a change: the step
\* from the update to the 200 response with the saved state.
SavedChange(p) ==
    /\ pc[p] = "s_update"
    /\ pc'[p] = "done"
    /\ resp'[p].code = 200
    /\ "data" \in DOMAIN resp'[p]

\* The server acts on no text received from a socket: receiving changes
\* nothing but the count of received texts.
InboundIgnored ==
    \A w \in Sockets :
        sockets'[w].inbound # sockets[w].inbound
        => /\ http' = http
           /\ active_connections' = active_connections
           /\ sockets'[w].outbox = sockets[w].outbox
           /\ sockets'[w].state = sockets[w].state

\* C18 as stated: after a POST /game/state that saved a change, every
\* socket registered for the user at the time of the broadcast has been
\* sent exactly one 'game_state_updated' message with the saved state, and
\* no other socket has been sent anything; texts received from a socket are
\* not acted on.
C18_BroadcastAllRegistered ==
    [][ /\ \A p \in Procs :
             SavedChange(p)
             => \A w \in Sockets :
                   sockets'[w].outbox =
                       IF w \in Registered(req[p].user)
                       THEN Append(sockets[w].outbox,
                                   [ type |-> "game_state_updated",
                                     data |-> resp'[p].data ])
                       ELSE sockets[w].outbox
        /\ InboundIgnored
      ]_vars

\* C18 amended: every socket registered for the user whose connection is
\* open is sent exactly one 'game_state_updated' message with the saved
\* state; a registered socket whose send fails (its client is gone) gets
\* nothing; no socket registered under another user id is sent anything or
\* dropped from the registry; texts received from a socket are not acted on.
C18_BroadcastOpenRegistered ==
    [][ /\ \A p \in Procs :
             SavedChange(p)
             => LET u == req[p].user
                IN  /\ \A w \in Sockets :
                          sockets'[w].outbox =
                              IF /\ w \in Registered(u)
                                 /\ sockets[w].state = "open"
                              THEN Append(sockets[w].outbox,
                                          [ type |-> "game_state_updated",
                                            data |-> resp'[p].data ])
                              ELSE sockets[w].outbox
                    /\ \A v \in Users \ {u} :
                          Registered(v)' = Registered(v)
        /\ InboundIgnored
      ]_vars

\* A save of u1 has been pushed to u1's open socket and not to the open
\* socket registered under u2, which has sent a text to the server.
C18_Witness ==
    \E w, x \in Sockets :
        /\ pc["p1"] = "done"
        /\ req["p1"].op = "save"
        /\ req["p1"].user = "u1"
        /\ w \in Registered("u1")
        /\ Len(sockets[w].outbox) = 1
        /\ sockets[w].outbox[1].data = Row("u1")
        /\ x \in Registered("u2")
        /\ sockets[x].state = "open"
        /\ sockets[x].inbound > 0
        /\ sockets[x].outbox = <<>>

\* ----------------------------------------- properties: first access
\* C19: a GET /game/state for a user without a game state creates it with
\* the defaults (current_coins 1000, main_balance 1000.0, bonus_balance 0,
\* energy 100, max_energy 100, click_power 1, auto_mining_rate 0,
\* total_clicks 0) and returns it; a user never has more than one game
\* state, and a GET /game/state for a user who has one returns the record
\* it read and neither inserts another nor resets it.
C19_CreatedOnce ==
    [][ /\ \A u \in Users : Len(game_states'[u]) <= 1
        /\ \A p \in Procs :
             LET u == req[p].user
             IN  /\ ( pc[p] = "g_select" /\ pc'[p] # "g_select" /\ HasRow(u) )
                    => /\ game_states' = game_states
                       /\ pc'[p] # "g_insert"
                       /\ loc'[p].game_state = Row(u)
                 /\ ( pc[p] = "g_settle" /\ pc'[p] = "done" )
                    => /\ game_states' = game_states
                       /\ resp'[p].code = 200
                       /\ resp'[p].data = loc[p].game_state
                 /\ ( pc[p] = "g_insert" /\ pc'[p] = "done" )
                    => IF HasRow(u)
                       THEN game_states' = game_states
                       ELSE /\ Len(game_states'[u]) = 1
                            /\ resp'[p].data = game_states'[u][1]
                            /\ game_states'[u][1].current_coins = 100000
                            /\ game_states'[u][1].main_balance = 100000
                            /\ game_states'[u][1].bonus_balance = 0
                            /\ game_states'[u][1].energy = 100
                            /\ game_states'[u][1].max_energy = 100
                            /\ game_states'[u][1].click_power = 1
                            /\ game_states'[u][1].auto_mining_rate = 0
                            /\ game_states'[u][1].total_clicks = 0
      ]_vars

\* Two first GET /game/state requests of a user raced: one created the
\* record with the defaults, the other's insert was refused, and one record
\* exists.
C19_Witness ==
    \E p, q \in Procs :
        /\ p # q
        /\ pc[p] = "done" /\ IsGet(p)
        /\ pc[q] = "done" /\ IsGet(q)
        /\ req[p].user = req[q].user
        /\ resp[p].code = 200
        /\ resp[q].code = 500
        /\ Len(game_states[req[p].user]) = 1
        /\ resp[p].data = Row(req[p].user)

\* --------------------------------------------------- properties: click
\* C20: a click request with clicks > 0 and clicks <= the reconciled energy
\* succeeds; energy becomes the reconciled energy - clicks, total_clicks
\* grows by clicks and the balance becomes the reconciled balance + clicks *
\* click_power * 0.1.  When no time has passed since the last update the
\* reconciled values are the stored ones.
C20_ClickYield ==
    [][ \A p \in Procs :
          LET u == req[p].user
              clicks == req[p].clicks
              before == Reconcile(Row(u), now)
          IN  ( /\ pc[p] = "c_apply"
                /\ pc'[p] = "done"
                /\ clicks > 0
                /\ clicks <= before.energy )
              => /\ now = Row(u).last_update_at
                    => /\ before.energy = Row(u).energy
                       /\ before.current_balance = Row(u).current_balance
                 /\ resp'[p].code = 200
                 /\ Row(u)'.energy = before.energy - clicks
                 /\ Row(u)'.total_clicks = Row(u).total_clicks + clicks
                 /\ Row(u)'.current_balance
                       = before.current_balance
                         + (clicks * Row(u).click_power * 10)
      ]_vars

\* 100 clicks with click power 2 have used up the energy and earned 20.00;
\* an hour later 5 clicks more have succeeded on the regenerated energy.
C20_Witness ==
    /\ pc["p1"] = "done"
    /\ req["p1"].op = "click"
    /\ req["p1"].clicks = 5
    /\ resp["p1"].code = 200
    /\ now = 3600
    /\ Row("u1").click_power = 2
    /\ Row("u1").auto_mining_rate = 0
    /\ Row("u1").total_clicks = 105
    /\ Row("u1").current_balance = 2100
    /\ Row("u1").energy = 55

\* C21: a click request with clicks greater than the reconciled energy fails
\* with 400 and applies nothing: energy, total_clicks and balance are left
\* at their reconciled values, which are the stored ones when no time has
\* passed since the last update.
C21_InsufficientEnergy ==
    [][ \A p \in Procs :
          LET u == req[p].user
              clicks == req[p].clicks
              before == Reconcile(Row(u), now)
          IN  ( /\ pc[p] = "c_apply"
                /\ pc'[p] = "done"
                /\ clicks > before.energy )
              => /\ resp'[p].code = 400
                 /\ Row(u)'.energy = before.energy
                 /\ Row(u)'.total_clicks = before.total_clicks
                 /\ Row(u)'.current_balance = before.current_balance
                 /\ now = Row(u).last_update_at
                    => /\ Row(u)'.energy = Row(u).energy
                       /\ Row(u)'.total_clicks = Row(u).total_clicks
                       /\ Row(u)'.current_balance = Row(u).current_balance
      ]_vars

\* 100 clicks have drained the energy to 0 and one more click has failed.
C21_Witness ==
    /\ pc["p1"] = "done"
    /\ req["p1"].op = "click"
    /\ req["p1"].clicks = 1
    /\ resp["p1"].code = 400
    /\ now = 0
    /\ Row("u1").energy = 0
    /\ Row("u1").total_clicks = 100
    /\ Row("u1").click_power = 1
    /\ Row("u1").current_balance = 1000


\* C22: for every user and upgrade type the level never exceeds the type's
\* max_level and never decreases; a purchase at level = max_level answers
\* MaxLevelReached and leaves the reconciled balance and the level as they
\* were; a successful purchase at level n debits base_price * multiplier^n
\* from the reconciled balance and raises the level by exactly 1.
C22_UpgradeLevels ==
    [][ /\ \A u \in Users, t \in UpgradeType :
             /\ upgrades'[u][t] >= upgrades[u][t]
             /\ upgrades'[u][t] <= UpgradeCatalogue[t].max_level
        /\ \A p \in Procs :
             LET u == req[p].user
                 t == req[p].upgrade_type
                 n == upgrades[u][t]
                 c == UpgradeCatalogue[t]
                 before == Reconcile(Row(u), now)
             IN  ( pc[p] = "u_apply" /\ pc'[p] = "done" )
                 => /\ n = c.max_level
                       => /\ resp'[p].code = 400
                          /\ resp'[p].detail = "MaxLevelReached"
                          /\ Row(u)'.current_balance = before.current_balance
                          /\ upgrades' = upgrades
                    /\ resp'[p].code = 200
                       => /\ Row(u)'.current_balance * Pow(c.den, n)
                               = before.current_balance * Pow(c.den, n)
                                   - c.base_price * Pow(c.num, n)
                          /\ upgrades'[u][t] = n + 1
                          /\ \A t2 \in UpgradeType \ {t} :
                                upgrades'[u][t2] = upgrades[u][t2]
      ]_vars

\* Two AUTO_MINING purchases by a player with 1000.00: the first, at level
\* 0, cost the base price of 100.00 and reached max_level 1; the second was
\* refused with MaxLevelReached and the balance stayed at 900.00.
C22_Witness ==
    /\ pc["p1"] = "done"
    /\ req["p1"].op = "upgrade"
    /\ req["p1"].upgrade_type = "AUTO_MINING"
    /\ resp["p1"].code = 400
    /\ resp["p1"].detail = "MaxLevelReached"
    /\ upgrades["u1"]["AUTO_MINING"] = 1
    /\ now = 0
    /\ Row("u1").current_balance = 90000


\* ------------------------------------------------ properties: two users
\* The verified records stored for a transaction id under other users.
VerifiedElsewhere(u, tid) ==
    { i \in 1..Len(transaction_verifications) :
        /\ transaction_verifications[i].user_id # u
        /\ transaction_verifications[i].transaction_id = tid
        /\ transaction_verifications[i].status = "verified" }

\* C23: a transaction id is credited at most once across all users: a
\* verify-transaction request changes the balance of its user only if no
\* other user has a verified record of the same transaction id.
C23_OneCreditPerId ==
    [][ \A p \in Procs :
          ( /\ pc[p] = "v_update_state"
            /\ pc'[p] # "v_update_state"
            /\ HasRow(req[p].user)
            /\ Row(req[p].user)'.current_coins # Row(req[p].user).current_coins )
          => VerifiedElsewhere(req[p].user, req[p].transaction_id) = {}
      ]_vars


\* ------------------------------------------ properties: partial writes
\* No request is being served.
Quiescent == \A p \in Procs : Free(p)

\* The verified records of a user, by position.
VerifiedOf(u) ==
    { i \in 1..Len(transaction_verifications) :
        /\ transaction_verifications[i].user_id = u
        /\ transaction_verifications[i].status = "verified" }

\* amount + bonus_amount of a user's verified records, summed.
VerifiedSum(u) ==
    LET S[i \in 0..Len(transaction_verifications)] ==
            IF i = 0 THEN 0
            ELSE S[i-1] + (IF i \in VerifiedOf(u)
                           THEN transaction_verifications[i].amount
                                  + transaction_verifications[i].bonus_amount
                           ELSE 0)
    IN  S[Len(transaction_verifications)]

\* C24: when no request is being served, every stored verification record
\* with status 'verified' has a deposit_bonus ledger entry of its user for
\* amount + bonus, the user has a game state, and (the user having bought
\* nothing) the stored balance is the initial balance plus amount + bonus
\* of each of the user's verified records.
C24_VerifiedIsCredited ==
    Quiescent
    => \A u \in Users :
          /\ \A i \in VerifiedOf(u) :
                LET v == transaction_verifications[i]
                IN  /\ HasRow(u)
                    /\ \E j \in DepositsFor(u, v.transaction_id) :
                          transactions[j].amount = v.amount + v.bonus_amount
          /\ ( HasRow(u) /\ mining_rigs = <<>> )
             => Row(u).current_coins = INITIAL_COINS + VerifiedSum(u)


\* C25: a successful rig purchase adds one active rig of the configured
\* mining power, efficiency and rarity, lowers current_coins by the rig
\* type's cost and main_balance by the same cost, and leaves every other
\* field of the game state as it was.
C25_RigPurchaseDebit ==
    [][ \A p \in Procs :
          LET u == req[p].user
              config == rig_configs[req[p].rig_type]
          IN  /\ ( pc[p] = "r_insert_rig" /\ pc'[p] = "r_update_state" )
                 => /\ Len(mining_rigs') = Len(mining_rigs) + 1
                    /\ LET rig == mining_rigs'[Len(mining_rigs')]
                       IN  /\ rig.user_id = u
                           /\ rig.is_active
                           /\ rig.mining_power = config.power
                           /\ rig.efficiency_rating = config.efficiency
                           /\ rig.rarity = config.rarity
              /\ ( pc[p] = "r_update_state" /\ pc'[p] = "r_insert_ledger" )
                 => Row(u)' = [ Row(u) EXCEPT
                                  !.current_coins = @ - config.cost,
                                  !.main_balance = @ - config.cost ]
      ]_vars


\* The rigs of a user, by position, and their purchase prices summed.
RigsOf(u) == { i \in 1..Len(mining_rigs) : mining_rigs[i].user_id = u }
RigPrices(u) ==
    LET S[i \in 0..Len(mining_rigs)] ==
            IF i = 0 THEN 0
            ELSE S[i-1] + (IF i \in RigsOf(u)
                           THEN mining_rigs[i].purchase_price ELSE 0)
    IN  S[Len(mining_rigs)]

\* The purchase ledger entries of a user, by position.
PurchasesOf(u) ==
    { i \in 1..Len(transactions) :
        /\ transactions[i].user_id = u
        /\ transactions[i].transaction_type = "purchase" }


\* C26: a rig purchase is all-or-nothing.  When no request is being
\* served, every rig of a user has its purchase ledger entry and its debit:
\* the user has as many purchase entries as rigs, for the same total, and
\* (no deposit having been verified) the balance is the initial balance
\* less the prices of the user's rigs.
C26_RigAllOrNothing ==
    Quiescent
    => \A u \in Users :
          /\ Cardinality(RigsOf(u)) = Cardinality(PurchasesOf(u))
          /\ RigPrices(u) = RigSpend(u)
          /\ ( HasRow(u) /\ VerifiedOf(u) = {} )
             => Row(u).current_coins = INITIAL_COINS - RigPrices(u)


\* ------------------------------------------- properties: the registry
\* C27: send_personal_message never raises.  However the broadcast of a
\* save interleaves with connects and disconnects, a failing send is
\* swallowed and its socket ends up unregistered, and the save request,
\* having written, returns 200 with the saved state.
C27_SendNeverRaises ==
    [][ \A p \in Procs :
          pc[p] = "s_send"
          => /\ \A w \in Sockets :
                   ( sockets'[w].failed /\ ~ sockets[w].failed )
                   => \A u \in Users : w \notin Registered(u)'
             /\ pc'[p] = "done"
                => /\ resp'[p].code = 200
                   /\ resp'[p].data = Row(req[p].user)'
      ]_vars

\* C28: every key of the registry maps to a non-empty set, and a socket is
\* registered under a user id exactly when it has connected with that id
\* and has neither been disconnected nor failed a send.
C28_RegistryWellFormed ==
    /\ \A u \in DOMAIN active_connections : active_connections[u] # {}
    /\ \A u \in Users, w \in Sockets :
          w \in Registered(u)
          <=> /\ sockets[w].user_id = u
              /\ sockets[w].state \in {"open", "closed"}
              /\ ~ sockets[w].failed


\* -------------------------------------------- properties: the save
\* The value stored for a supplied field.
Clamped(f, v) ==
    CASE f = "current_level" -> Max(1, v)
      [] f \in {"experience_points", "current_coins", "main_balance"} -> Max(0, v)
      [] OTHER -> v

\* C29: a POST /game/state changes only the fields supplied in its body,
\* storing current_level raised to at least 1, experience_points,
\* current_coins and main_balance raised to at least 0 and the others as
\* given; the fields not supplied and the other users' game states keep
\* their values; a request supplying no field writes nothing and sends no
\* WebSocket message.
C29_SaveFrame ==
    [][ \A p \in Procs :
          ( pc[p] = "s_update" /\ pc'[p] # "s_update" )
          => LET u == req[p].user
                 body == req[p].body
             IN  /\ \A v \in Users \ {u} : game_states'[v] = game_states[v]
                 /\ Len(game_states'[u]) = Len(game_states[u])
                 /\ HasRow(u)
                    => \A f \in DOMAIN Row(u) :
                          Row(u)'[f] =
                             IF f \in DOMAIN body /\ ~ IsNone(body[f])
                             THEN Clamped(f, Get(body[f]))
                             ELSE Row(u)[f]
                 /\ body = NoUpdate
                    => /\ db' = db
                       /\ ws' = ws
                       /\ resp'[p].message = "No changes made"
      ]_vars

\* A save of u1 supplying current_level 0, experience_points -5 and
\* main_balance -0.01 has stored 1, 0 and 0, left the coins and the energy
\* at their defaults and been pushed to u1's open socket.
C29_Witness ==
    \E w \in Sockets :
        /\ pc["p1"] = "done"
        /\ req["p1"].op = "save"
        /\ req["p1"].user = "u1"
        /\ req["p1"].body.current_level = Some(0)
        /\ req["p1"].body.experience_points = Some(0 - 5)
        /\ resp["p1"].code = 200
        /\ Row("u1") = [ DefaultGameState EXCEPT !.main_balance = 0 ]
        /\ w \in Registered("u1")
        /\ Len(sockets[w].outbox) = 1
        /\ sockets[w].outbox[1].data = Row("u1")


\* ---------------------------------------- properties: user isolation
\* A request slot is running a handler for an authenticated user.
Serving(p, u) ==
    /\ pc[p] \notin {"idle", "done", "auth"}
    /\ req[p].user = u

\* What the datastore holds of a user.
DataOf(u) ==
    << game_states[u], RowsOf(mining_rigs, u), RowsOf(transactions, u),
       RowsOf(transaction_verifications, u) >>

\* C30: user isolation.  A user's game state, rigs, ledger entries and
\* verification records change only in steps of requests made with that
\* user's credential, and a request made with a user's credential returns
\* only that user's records: its rigs and ledger entries carry the user's
\* id and its game state is the user's.
C30_UserIsolation ==
    [][ /\ \A b \in Users :
             DataOf(b)' # DataOf(b) => \E p \in Procs : Serving(p, b)
        /\ \A p \in Procs, a \in Users :
             ( Serving(p, a) /\ pc'[p] = "done" /\ resp'[p].code = 200 )
             => LET r == resp'[p]
                    op == req[p].op
                    Own(rows) == \A i \in 1..Len(rows) : rows[i].user_id = a
                IN  /\ op = "get_rigs" => Own(r.data) /\ r.data = RowsOf(mining_rigs, a)
                    /\ op = "get_transactions"
                       => Own(r.transactions) /\ r.transactions = RowsOf(transactions, a)
                    /\ op \in {"get_profile", "put_profile"}
                       => /\ r.game_state = game_states[a]
                          /\ Own(r.mining_rigs)
                    /\ op = "rig" => r.rig.user_id = a
                    /\ ( op \in {"get", "save"} /\ "data" \in DOMAIN r )
                       => \A f \in DOMAIN Row(a)' : r.data[f] = Row(a)'[f]
                    /\ op = "verify"
                       => \E v \in StoredFor(a, req[p].transaction_id)' :
                             /\ v.status = r.status
                             /\ v.amount = r.amount
      ]_vars

\* u2 has bought a rig and u1 has made a deposit; u1's transaction listing
\* holds u1's entry only, of the two of the ledger.
C30_Witness ==
    /\ pc["p1"] = "done"
    /\ req["p1"].op = "get_transactions"
    /\ req["p1"].user = "u1"
    /\ resp["p1"].code = 200
    /\ resp["p1"].count = 1
    /\ resp["p1"].transactions[1].user_id = "u1"
    /\ Len(transactions) = 2
    /\ \E i \in 1..2 : transactions[i].user_id = "u2"
    /\ Len(RowsOf(mining_rigs, "u2")) = 1

=============================================================================
